---- MODULE Spec2Model ----
(***************************************************************************)
(* A model of the Monkey interpreter: the tree-walking evaluator           *)
(* (eval/mod.rs), the bytecode compiler (compiler/mod.rs) and the stack    *)
(* virtual machine (vm/mod.rs), run on a fixed family of parsed programs.  *)
(*                                                                         *)
(* Indices (constant pool, instruction pointers, jump targets) are         *)
(* 0-based as in the source; TLA+ sequences are 1-based, so element i of   *)
(* a vector v is v[i + 1].                                                 *)
(***************************************************************************)
EXTENDS Integers, Sequences, FiniteSets, TLC

(***************************************************************************)
(* Option<T> is a sequence of length 0 (None) or 1 (Some).                 *)
(***************************************************************************)
None == <<>>
Some(x) == <<x>>
IsSome(o) == Len(o) = 1

(***************************************************************************)
(* Spans: byte offsets in the source, here in units of one token.          *)
(***************************************************************************)
Span(start, end) == [start |-> start, end |-> end]

DefaultSpan == Span(0, 0)

Min(a, b) == IF a < b THEN a ELSE b
Max(a, b) == IF a > b THEN a ELSE b

Join(a, b) == Span(Min(a.start, b.start), Max(a.end, b.end))

(***************************************************************************)
(* The syntax tree as the parser hands it to both back-ends.  The          *)
(* constructors below build trees without positions; Place lays a tree     *)
(* out token by token and gives every node the span the parser gives it.   *)
(***************************************************************************)
EInt(v) == [e |-> "Integer", value |-> v]
EBool(b) == [e |-> "Boolean", value |-> b]
ENull == [e |-> "Null"]
EStr(s) == [e |-> "String", value |-> s]
EId(n) == [e |-> "Identifier", value |-> n]
EPrefix(op, x) == [e |-> "Prefix", operator |-> op, operand |-> x]
EInfix(l, op, r) == [e |-> "Infix", operator |-> op, left |-> l, right |-> r]
EIf(c, cons) ==
    [e |-> "If", condition |-> c, consequence |-> cons, alternative |-> None]
EIfElse(c, cons, alt) ==
    [e |-> "If", condition |-> c, consequence |-> cons, alternative |-> Some(alt)]
EFn(params, body) == [e |-> "Function", parameters |-> params, body |-> body]
ECall(f, args) == [e |-> "Call", function |-> f, arguments |-> args]
EArray(es) == [e |-> "Array", elements |-> es]
EIndex(c, i) == [e |-> "Index", collection |-> c, index |-> i]
EMap(es) == [e |-> "Map", elements |-> es]

SExpr(x) == [s |-> "Expression", expr |-> x]
SLet(n, v) == [s |-> "Let", name |-> n, value |-> v]
SReturn(v) == [s |-> "Return", value |-> v]

Commas(n) == IF n > 0 THEN n - 1 ELSE 0

RECURSIVE Width(_), SumWidth(_), StmtWidth(_), StmtsWidth(_), EntriesWidth(_)

\* Number of tokens of an expression.
Width(x) ==
    CASE x.e \in {"Integer", "Boolean", "Null", "String", "Identifier"} -> 1
      [] x.e = "Prefix" -> 1 + Width(x.operand)
      [] x.e = "Infix" -> Width(x.left) + 1 + Width(x.right)
      [] x.e = "If" ->
            2 + Width(x.condition) + 2 + StmtsWidth(x.consequence) + 1
            + (IF IsSome(x.alternative)
                 THEN 2 + StmtsWidth(x.alternative[1]) + 1 ELSE 0)
      [] x.e = "Function" ->
            2 + Len(x.parameters) + Commas(Len(x.parameters)) + 2
            + StmtsWidth(x.body) + 1
      [] x.e = "Call" ->
            Width(x.function) + 1 + SumWidth(x.arguments)
            + Commas(Len(x.arguments)) + 1
      [] x.e = "Array" ->
            1 + SumWidth(x.elements) + Commas(Len(x.elements)) + 1
      [] x.e = "Index" -> Width(x.collection) + 1 + Width(x.index) + 1
      [] x.e = "Map" ->
            1 + EntriesWidth(x.elements) + Commas(Len(x.elements)) + 1

SumWidth(xs) ==
    IF Len(xs) = 0 THEN 0 ELSE Width(Head(xs)) + SumWidth(Tail(xs))

EntriesWidth(es) ==
    IF Len(es) = 0 THEN 0
    ELSE Width(Head(es)[1]) + 1 + Width(Head(es)[2]) + EntriesWidth(Tail(es))

\* Number of tokens of a statement, its semicolon included.
StmtWidth(st) ==
    CASE st.s = "Expression" -> Width(st.expr) + 1
      [] st.s = "Let" -> 3 + Width(st.value) + 1
      [] st.s = "Return" -> 1 + Width(st.value) + 1

StmtsWidth(sts) ==
    IF Len(sts) = 0 THEN 0 ELSE StmtWidth(Head(sts)) + StmtsWidth(Tail(sts))

Take(xs, n) == SubSeq(xs, 1, n)

RECURSIVE Place(_, _), PlaceStmt(_, _)

PlaceList(xs, at) ==
    [i \in 1..Len(xs) |-> Place(xs[i], at + SumWidth(Take(xs, i - 1)) + (i - 1))]

PlaceEntries(es, at) ==
    [i \in 1..Len(es) |->
        LET start == at + EntriesWidth(Take(es, i - 1)) + (i - 1)
        IN  <<Place(es[i][1], start),
              Place(es[i][2], start + Width(es[i][1]) + 1)>>]

PlaceStmts(sts, at) ==
    [i \in 1..Len(sts) |-> PlaceStmt(sts[i], at + StmtsWidth(Take(sts, i - 1)))]

\* The tree x with its first token at offset at: every node gets its span.
Place(x, at) ==
    LET whole == Span(at, at + Width(x)) IN
    CASE x.e \in {"Integer", "Boolean", "String", "Identifier"} ->
            [e |-> x.e, value |-> x.value, span |-> whole]
      [] x.e = "Null" -> [e |-> "Null", span |-> whole]
      [] x.e = "Prefix" ->
            [e |-> "Prefix", operator |-> x.operator,
             operand |-> Place(x.operand, at + 1), span |-> whole]
      [] x.e = "Infix" ->
            [e |-> "Infix", operator |-> x.operator,
             left |-> Place(x.left, at),
             right |-> Place(x.right, at + Width(x.left) + 1),
             span |-> whole]
      [] x.e = "If" ->
            LET consAt == at + 2 + Width(x.condition) + 2
                altAt == consAt + StmtsWidth(x.consequence) + 3
            IN  [e |-> "If",
                 condition |-> Place(x.condition, at + 2),
                 consequence |-> PlaceStmts(x.consequence, consAt),
                 alternative |->
                    IF IsSome(x.alternative)
                      THEN Some(PlaceStmts(x.alternative[1], altAt))
                      ELSE None,
                 span |-> whole]
      [] x.e = "Function" ->
            [e |-> "Function", parameters |-> x.parameters,
             body |-> PlaceStmts(x.body,
                        at + 2 + Len(x.parameters)
                        + Commas(Len(x.parameters)) + 2),
             span |-> whole]
      [] x.e = "Call" ->
            [e |-> "Call",
             function |-> Place(x.function, at),
             arguments |-> PlaceList(x.arguments, at + Width(x.function) + 1),
             span |-> whole,
             args_span |-> Span(at + Width(x.function), at + Width(x))]
      [] x.e = "Array" ->
            [e |-> "Array", elements |-> PlaceList(x.elements, at + 1),
             span |-> whole]
      [] x.e = "Index" ->
            [e |-> "Index",
             collection |-> Place(x.collection, at),
             index |-> Place(x.index, at + Width(x.collection) + 1),
             span |-> whole]
      [] x.e = "Map" ->
            [e |-> "Map", elements |-> PlaceEntries(x.elements, at + 1),
             span |-> whole]

PlaceStmt(st, at) ==
    CASE st.s = "Expression" -> [s |-> "Expression", expr |-> Place(st.expr, at)]
      [] st.s = "Let" ->
            [s |-> "Let", name |-> st.name, value |-> Place(st.value, at + 3)]
      [] st.s = "Return" ->
            [s |-> "Return", value |-> Place(st.value, at + 1)]

\* A parsed program: its statements, laid out from offset 0.
Parsed(sts) == [statements |-> PlaceStmts(sts, 0)]


(***************************************************************************)
(* Runtime values (object.rs).  A map is the sequence of its entries in    *)
(* insertion order, one entry per key.                                     *)
(***************************************************************************)
OInteger(i) == [k |-> "Integer", v |-> i]
OBoolean(b) == [k |-> "Boolean", v |-> b]
ONull == [k |-> "Null"]
OString(s) == [k |-> "String", v |-> s]
OArray(a) == [k |-> "Array", v |-> a]
OMap(m) == [k |-> "Map", v |-> m]
OReturn(v) == [k |-> "Return", v |-> v]
OFunction(this, parameters, body, env) ==
    [k |-> "Function", this |-> this, parameters |-> parameters,
     body |-> body, env |-> env]
OCompiledFunction(ops, params) ==
    [k |-> "CompiledFunction", ops |-> ops, params |-> params]

\* ObjectKind: the discriminant; Return is displayed as Null.
ObjectKind(o) == o.k

\* A truthiness under which 0, "" and the empty array are falsy as well.
truthyNonZero(o) ==
    ~(\/ o.k = "Null"
      \/ (o.k = "Boolean" /\ o.v = FALSE)
      \/ (o.k = "Integer" /\ o.v = 0)
      \/ (o.k \in {"String", "Array"} /\ Len(o.v) = 0))

truthy(o) == ~(o.k = "Null" \/ (o.k = "Boolean" /\ o.v = FALSE))

RECURSIVE ObjectEq(_, _), ElementsEq(_, _, _), EntriesEq(_, _, _), MapFind(_, _, _)

\* Index of the entry of m whose key equals key, searching from i; 0 if none.
MapFind(m, key, i) ==
    IF i > Len(m) THEN 0
    ELSE IF ObjectEq(m[i].key, key) = "true" THEN i
    ELSE MapFind(m, key, i + 1)

\* a == b of the derived PartialEq: "true", "false", or "panic" where the
\* comparison reaches the unreachable!() of a function's eq.
ObjectEq(a, b) ==
    IF a.k # b.k THEN "false"
    ELSE CASE a.k \in {"Integer", "Boolean", "String"} ->
                IF a.v = b.v THEN "true" ELSE "false"
           [] a.k = "Null" -> "true"
           [] a.k = "Return" -> ObjectEq(a.v, b.v)
           [] a.k \in {"Function", "CompiledFunction"} -> "panic"
           [] a.k = "Array" ->
                IF Len(a.v) # Len(b.v) THEN "false" ELSE ElementsEq(a.v, b.v, 1)
           [] a.k = "Map" ->
                IF Len(a.v) # Len(b.v) THEN "false" ELSE EntriesEq(a.v, b.v, 1)

ElementsEq(xs, ys, i) ==
    IF i > Len(xs) THEN "true"
    ELSE LET r == ObjectEq(xs[i], ys[i])
         IN  IF r = "true" THEN ElementsEq(xs, ys, i + 1) ELSE r

EntriesEq(m, n, i) ==
    IF i > Len(m) THEN "true"
    ELSE LET j == MapFind(n, m[i].key, 1)
         IN  IF j = 0 THEN "false"
             ELSE LET r == ObjectEq(m[i].val, n[j].val)
                  IN  IF r = "true" THEN EntriesEq(m, n, i + 1) ELSE r

RECURSIVE HashPanics(_)

\* Hashing a value reaches the unreachable!() of Map, Function or
\* CompiledFunction.
HashPanics(o) ==
    CASE o.k \in {"Map", "Function", "CompiledFunction"} -> TRUE
      [] o.k = "Array" -> \E i \in 1..Len(o.v) : HashPanics(o.v[i])
      [] o.k = "Return" -> HashPanics(o.v)
      [] OTHER -> FALSE

\* HashMap::insert: the value of an existing key is replaced.
MapInsert(m, key, val) ==
    LET j == MapFind(m, key, 1)
    IN  IF j = 0 THEN Append(m, [key |-> key, val |-> val])
        ELSE [m EXCEPT ![j] = [key |-> m[j].key, val |-> val]]

\* HashMap::get / remove as used by Index: the value or Null.
MapGetOrNull(m, key) ==
    LET j == MapFind(m, key, 1) IN IF j = 0 THEN ONull ELSE m[j].val

(***************************************************************************)
(* Results.  Ok and Err are the Rust Result; Panic is a Rust panic, which  *)
(* aborts the interpreter; Deep marks a call nesting beyond MaxCallDepth,  *)
(* which the model does not explore.                                       *)
(***************************************************************************)
Ok(v) == [t |-> "Ok", v |-> v]
Err(errors) == [t |-> "Err", errors |-> errors]
Panic(msg) == [t |-> "Panic", msg |-> msg]
Deep == [t |-> "Deep"]

IsOk(r) == r.t = "Ok"

InvalidOperands(operator, left, right) ==
    [kind |-> "InvalidOperands", operator |-> operator,
     left |-> ObjectKind(left), right |-> ObjectKind(right)]
InvalidOperand(operator, operand) ==
    [kind |-> "InvalidOperand", operator |-> operator,
     operand |-> ObjectKind(operand)]
UndefinedVariable(name) == [kind |-> "UndefinedVariable", name |-> name]
NotAFunction == [kind |-> "NotAFunction"]
WrongNumberOfArguments(expected, got) ==
    [kind |-> "WrongNumberOfArguments", expected |-> expected, got |-> got]
NotACollection == [kind |-> "NotACollection"]
NotAnIndex == [kind |-> "NotAnIndex"]
OutOfBounds(i, len) == [kind |-> "OutOfBounds", i |-> i, len |-> len]
InvalidKey(kind) == [kind |-> "InvalidKey", key |-> kind]
BadTypeForLen(kind) == [kind |-> "BadTypeForLen", arg |-> kind]
NotAnArray == [kind |-> "NotAnArray"]
DivisionByZero == [kind |-> "DivisionByZero"]
Underflow == [kind |-> "Underflow"]


(***************************************************************************)
(* Intrinsics (intrinsic.rs).  An intrinsic gets the evaluated arguments   *)
(* by shared reference and returns a new value.                            *)
(***************************************************************************)
IntrinsicNames == {"print", "len", "first", "last", "rest", "push"}

\* print writes to standard output, which is not modelled.
print(args) == Ok(ONull)

len(args) ==
    IF Len(args) # 1 THEN Err(<<WrongNumberOfArguments(1, Len(args))>>)
    ELSE LET arg == args[1]
         IN  IF arg.k \in {"Array", "Map", "String"}
               THEN Ok(OInteger(Len(arg.v)))
               ELSE Err(<<BadTypeForLen(ObjectKind(arg))>>)

first(args) ==
    IF Len(args) # 1 THEN Err(<<WrongNumberOfArguments(1, Len(args))>>)
    ELSE IF args[1].k # "Array" THEN Err(<<NotAnArray>>)
    ELSE Ok(IF Len(args[1].v) = 0 THEN ONull ELSE args[1].v[1])

last(args) ==
    IF Len(args) # 1 THEN Err(<<WrongNumberOfArguments(1, Len(args))>>)
    ELSE IF args[1].k # "Array" THEN Err(<<NotAnArray>>)
    ELSE Ok(IF Len(args[1].v) = 0 THEN ONull ELSE args[1].v[Len(args[1].v)])

rest(args) ==
    IF Len(args) # 1 THEN Err(<<WrongNumberOfArguments(1, Len(args))>>)
    ELSE IF args[1].k # "Array" THEN Err(<<NotAnArray>>)
    ELSE Ok(OArray(IF Len(args[1].v) = 0 THEN <<>> ELSE Tail(args[1].v)))

\* A push that hands back its first argument as it is.
pushNothing(args) ==
    IF Len(args) # 2 THEN Err(<<WrongNumberOfArguments(2, Len(args))>>)
    ELSE IF args[1].k # "Array" THEN Err(<<NotAnArray>>)
    ELSE Ok(args[1])

push(args) ==
    IF Len(args) # 2 THEN Err(<<WrongNumberOfArguments(2, Len(args))>>)
    ELSE IF args[1].k # "Array" THEN Err(<<NotAnArray>>)
    ELSE Ok(OArray(Append(args[1].v, args[2])))

lookup_intrinsic(name) == IF name \in IntrinsicNames THEN Some(name) ELSE None

CallIntrinsic(name, args) ==
    CASE name = "print" -> print(args)
      [] name = "len" -> len(args)
      [] name = "first" -> first(args)
      [] name = "last" -> last(args)
      [] name = "rest" -> rest(args)
      [] name = "push" -> push(args)

(***************************************************************************)
(* The tree-walking evaluator (eval/mod.rs).  An Environment is a chain of *)
(* owned maps; every child holds a copy of its parent.                     *)
(***************************************************************************)
Environment(outer, values) == [outer |-> outer, values |-> values]

NoValues == [n \in {} |-> ONull]

DefaultEnvironment == Environment(None, NoValues)

\* HashMap<&str, Object>::insert
Insert(values, name, v) ==
    [n \in (DOMAIN values) \cup {name} |-> IF n = name THEN v ELSE values[n]]

RECURSIVE find_variable(_, _)

\* A lookup that gives Null for a name no environment of the chain binds.
FindVariableOrNull(env, name) ==
    IF name \in DOMAIN env.values THEN Some(env.values[name])
    ELSE IF IsSome(env.outer) THEN find_variable(env.outer[1], name)
    ELSE Some(ONull)

find_variable(env, name) ==
    IF name \in DOMAIN env.values THEN Some(env.values[name])
    ELSE IF IsSome(env.outer) THEN find_variable(env.outer[1], name)
    ELSE None

Abs(i) == IF i < 0 THEN -i ELSE i

\* i64 division truncates toward zero.
TruncDiv(a, b) ==
    IF (a < 0) = (b < 0) THEN Abs(a) \div Abs(b) ELSE -(Abs(a) \div Abs(b))

\* A matches! that lets every operand through.
IsFunctionNever(o) == FALSE

IsFunction(o) == o.k = "Function"

BoolOfEq(r, negate) ==
    IF r = "panic" THEN Panic("unreachable")
    ELSE Ok(OBoolean(IF negate THEN r = "false" ELSE r = "true"))

\* The match on (operator, left, right) of Expression::Infix.
EvalInfix(operator, left, right) ==
    LET ints == left.k = "Integer" /\ right.k = "Integer"
        noFunction == ~IsFunction(left) /\ ~IsFunction(right)
    IN  CASE operator = "Add" /\ ints -> Ok(OInteger(left.v + right.v))
          [] operator = "Add" /\ left.k = "String" /\ right.k = "String" ->
                Ok(OString(left.v \o right.v))
          [] operator = "Sub" /\ ints -> Ok(OInteger(left.v - right.v))
          [] operator = "Mul" /\ ints -> Ok(OInteger(left.v * right.v))
          [] operator = "Div" /\ ints ->
                IF right.v = 0 THEN Panic("attempt to divide by zero")
                ELSE Ok(OInteger(TruncDiv(left.v, right.v)))
          [] operator = "LT" /\ ints -> Ok(OBoolean(left.v < right.v))
          [] operator = "GT" /\ ints -> Ok(OBoolean(left.v > right.v))
          [] operator = "Eq" /\ noFunction ->
                BoolOfEq(ObjectEq(left, right), FALSE)
          [] operator = "Neq" /\ noFunction ->
                BoolOfEq(ObjectEq(left, right), TRUE)
          [] OTHER -> Err(<<InvalidOperands(operator, left, right)>>)

\* Expression::Prefix, applied to the operand's value.
EvalPrefix(operator, operand) ==
    IF operator = "Not" THEN Ok(OBoolean(~truthy(operand)))
    ELSE IF operand.k = "Integer" THEN Ok(OInteger(-operand.v))
    ELSE Err(<<InvalidOperand(operator, operand)>>)

\* Expression::Function: the closure captures a copy of the environment.
\* A function value that keeps nothing of the environment it was made in.
EvalFunctionDetached(env, expr, ident) ==
    OFunction(ident, expr.parameters, expr.body, Environment(None, NoValues))

EvalFunction(env, expr, ident) ==
    OFunction(ident, expr.parameters, expr.body,
              Environment(Some(env), NoValues))

\* An index that yields Null outside the array instead of an error.
EvalIndexOrNull(collection, index) ==
    IF collection.k = "Array" /\ index.k = "Integer"
      THEN Ok(IF index.v < 0 \/ index.v >= Len(collection.v) THEN ONull
              ELSE collection.v[index.v + 1])
      ELSE Err(<<NotACollection>>)

\* Expression::Index, applied to the values of collection and index.
EvalIndex(collection, index) ==
    CASE collection.k = "Array" ->
            IF index.k # "Integer" THEN Err(<<NotAnIndex>>)
            ELSE IF index.v < 0 \/ index.v >= Len(collection.v)
              THEN Err(<<OutOfBounds(index.v, Len(collection.v))>>)
            ELSE Ok(collection.v[index.v + 1])
      [] collection.k = "Map" ->
            IF index.k \in {"Function", "Map"}
              THEN Err(<<InvalidKey(ObjectKind(index))>>)
            ELSE IF Len(collection.v) = 0 THEN Ok(ONull)
            ELSE IF HashPanics(index) THEN Panic("unreachable")
            ELSE Ok(MapGetOrNull(collection.v, index))
      [] OTHER -> Err(<<NotACollection>>)

RECURSIVE BindParameters(_, _, _, _)

\* The loop of Expression::Call that inserts argument i for parameter i.
BindParameters(values, parameters, args, i) ==
    IF i > Len(args) THEN values
    ELSE BindParameters(Insert(values, parameters[i], args[i]),
                        parameters, args, i + 1)

\* The environment of a call without the captured one: the parameters and
\* the function's own let-name only.
CallEnvironmentWithoutCapture(function, args) ==
    LET bound == BindParameters(NoValues, function.parameters, args, 1)
    IN  Environment(None,
                    IF IsSome(function.this)
                      THEN Insert(bound, function.this[1], function)
                      ELSE bound)

\* The environment of a call: a copy of the captured one, plus the
\* parameters and then the function's own let-name.
CallEnvironment(function, args) ==
    LET bound == BindParameters(function.env.values, function.parameters, args, 1)
    IN  Environment(function.env.outer,
                    IF IsSome(function.this)
                      THEN Insert(bound, function.this[1], function)
                      ELSE bound)

RECURSIVE eval_expression(_, _, _, _), eval_statement(_, _, _),
          StatementsLoop(_, _, _, _, _, _), EvalList(_, _, _, _, _),
          EvalEntries(_, _, _, _, _)

eval_statements(env, statements, fuel) ==
    IF Len(statements) = 0 THEN [r |-> Ok(ONull), env |-> env]
    ELSE StatementsLoop(env, statements, 1, <<>>, ONull, fuel)

\* The for loop of eval_statements from statement i on.
StatementsLoop(env, statements, i, errors, lastValue, fuel) ==
    IF i > Len(statements)
      THEN [r |-> IF Len(errors) > 0 THEN Err(errors) ELSE Ok(lastValue),
            env |-> env]
    ELSE LET o == eval_statement(env, statements[i], fuel)
         IN  CASE o.r.t = "Ok" /\ o.r.v.k = "Return" ->
                    [r |-> Ok(o.r.v.v), env |-> o.env]
               [] o.r.t = "Ok" /\ o.r.v.k # "Return" ->
                    StatementsLoop(o.env, statements, i + 1, errors, o.r.v, fuel)
               [] o.r.t = "Err" ->
                    StatementsLoop(o.env, statements, i + 1,
                                   errors \o o.r.errors, lastValue, fuel)
               [] OTHER -> o

eval_block_statement(env, block, fuel) ==
    eval_statements(Environment(Some(env), NoValues), block, fuel).r

eval_statement(env, st, fuel) ==
    CASE st.s = "Expression" ->
            [r |-> eval_expression(env, st.expr, None, fuel), env |-> env]
      [] st.s = "Return" ->
            LET v == eval_expression(env, st.value, None, fuel)
            IN  [r |-> IF IsOk(v) THEN Ok(OReturn(v.v)) ELSE v, env |-> env]
      [] st.s = "Let" ->
            LET v == eval_expression(env, st.value, Some(st.name), fuel)
            IN  IF IsOk(v)
                  THEN [r |-> Ok(ONull),
                        env |-> Environment(env.outer,
                                            Insert(env.values, st.name, v.v))]
                  ELSE [r |-> v, env |-> env]

\* map(eval_expression).collect::<Result<Vec<_>>>() from element i on: the
\* values, or the first result that is not Ok.
EvalList(env, xs, i, acc, fuel) ==
    IF i > Len(xs) THEN Ok(acc)
    ELSE LET v == eval_expression(env, xs[i], None, fuel)
         IN  IF IsOk(v) THEN EvalList(env, xs, i + 1, Append(acc, v.v), fuel)
             ELSE v

\* The loop of Expression::Map from entry i on.
EvalEntries(env, es, i, map, fuel) ==
    IF i > Len(es) THEN Ok(OMap(map))
    ELSE LET key == eval_expression(env, es[i][1], None, fuel)
         IN  IF ~IsOk(key) THEN key
             ELSE IF key.v.k \in {"Function", "Map"}
               THEN Err(<<InvalidKey(ObjectKind(key.v))>>)
             ELSE LET val == eval_expression(env, es[i][2], None, fuel)
                  IN  IF ~IsOk(val) THEN val
                      ELSE IF HashPanics(key.v) THEN Panic("unreachable")
                      ELSE EvalEntries(env, es, i + 1,
                                       MapInsert(map, key.v, val.v), fuel)

eval_expression(env, expr, ident, fuel) ==
    CASE expr.e = "Integer" -> Ok(OInteger(expr.value))
      [] expr.e = "Boolean" -> Ok(OBoolean(expr.value))
      [] expr.e = "Null" -> Ok(ONull)
      [] expr.e = "String" -> Ok(OString(expr.value))
      [] expr.e = "Prefix" ->
            LET v == eval_expression(env, expr.operand, None, fuel)
            IN  IF IsOk(v) THEN EvalPrefix(expr.operator, v.v) ELSE v
      [] expr.e = "Infix" ->
            LET l == eval_expression(env, expr.left, None, fuel)
            IN  IF ~IsOk(l) THEN l
                ELSE LET r == eval_expression(env, expr.right, None, fuel)
                     IN  IF ~IsOk(r) THEN r
                         ELSE EvalInfix(expr.operator, l.v, r.v)
      [] expr.e = "If" ->
            LET c == eval_expression(env, expr.condition, None, fuel)
            IN  IF ~IsOk(c) THEN c
                ELSE IF truthy(c.v)
                  THEN eval_block_statement(env, expr.consequence, fuel)
                ELSE IF IsSome(expr.alternative)
                  THEN eval_block_statement(env, expr.alternative[1], fuel)
                ELSE Ok(ONull)
      [] expr.e = "Identifier" ->
            LET found == find_variable(env, expr.value)
            IN  IF IsSome(found) THEN Ok(found[1])
                ELSE Err(<<UndefinedVariable(expr.value)>>)
      [] expr.e = "Function" -> Ok(EvalFunction(env, expr, ident))
      [] expr.e = "Call" ->
            IF /\ expr.function.e = "Identifier"
               /\ IsSome(lookup_intrinsic(expr.function.value))
              THEN LET args == EvalList(env, expr.arguments, 1, <<>>, fuel)
                   IN  IF IsOk(args)
                         THEN CallIntrinsic(expr.function.value, args.v)
                         ELSE args
            ELSE LET f == eval_expression(env, expr.function, None, fuel)
                 IN  IF ~IsOk(f) THEN f
                     ELSE IF f.v.k # "Function" THEN Err(<<NotAFunction>>)
                     ELSE IF Len(expr.arguments) # Len(f.v.parameters)
                       THEN Err(<<WrongNumberOfArguments(Len(f.v.parameters),
                                                         Len(expr.arguments))>>)
                     ELSE LET args == EvalList(env, expr.arguments, 1, <<>>, fuel)
                          IN  IF ~IsOk(args) THEN args
                              ELSE IF fuel = 0 THEN Deep
                              ELSE eval_block_statement(
                                       CallEnvironment(f.v, args.v),
                                       f.v.body, fuel - 1)
      [] expr.e = "Array" ->
            LET vs == EvalList(env, expr.elements, 1, <<>>, fuel)
            IN  IF IsOk(vs) THEN Ok(OArray(vs.v)) ELSE vs
      [] expr.e = "Index" ->
            LET c == eval_expression(env, expr.collection, None, fuel)
            IN  IF ~IsOk(c) THEN c
                ELSE IF c.v.k \notin {"Array", "Map"} THEN Err(<<NotACollection>>)
                ELSE LET i == eval_expression(env, expr.index, None, fuel)
                     IN  IF ~IsOk(i) THEN i ELSE EvalIndex(c.v, i.v)
      [] expr.e = "Map" -> EvalEntries(env, expr.elements, 1, <<>>, fuel)

eval_program(env, program, fuel) == eval_statements(env, program.statements, fuel).r


(***************************************************************************)
(* Bytecode (code.rs) and the compiler (compiler/mod.rs).                  *)
(***************************************************************************)
OpConstant(i) == [op |-> "Constant", i |-> i]
OpTrue(span) == [op |-> "True", span |-> span]
OpFalse(span) == [op |-> "False", span |-> span]
OpInfix(name) == [op |-> name]
OpPop == [op |-> "Pop"]
OpNeg(span) == [op |-> "Neg", span |-> span]
OpNot(span) == [op |-> "Not", span |-> span]
OpJumpIfNot(target) == [op |-> "JumpIfNot", target |-> target]
OpJump(target) == [op |-> "Jump", target |-> target]
OpPanic == [op |-> "Panic"]
OpNull(span) == [op |-> "Null", span |-> span]
OpBind(name) == [op |-> "Bind", name |-> name]
OpGet(name, span) == [op |-> "Get", name |-> name, span |-> span]
OpArray(size, span) == [op |-> "Array", size |-> size, span |-> span]
OpMap(size, span) == [op |-> "Map", size |-> size, span |-> span]
OpIndex(span) == [op |-> "Index", span |-> span]
OpCall(call_span, args_span) ==
    [op |-> "Call", call_span |-> call_span, args_span |-> args_span]
OpReturnValue == [op |-> "ReturnValue"]
OpReturn == [op |-> "Return"]

\* impl From<InfixOperator> for Op
OpOfInfix(operator) ==
    OpInfix(IF operator \in {"LT", "GT"} THEN "GT" ELSE operator)

SpannedObject(object, span) == [object |-> object, span |-> span]

\* Compiler { constants, scopes }: a scope is its ops vector.
Compiler(constants, scopes) == [constants |-> constants, scopes |-> scopes]

DefaultCompiler == Compiler(<<>>, <<>>)

CurrentOps(c) == c.scopes[Len(c.scopes)]

WithOps(c, ops) == Compiler(c.constants, [c.scopes EXCEPT ![Len(c.scopes)] = ops])

\* current_scope().ops.push(op)
Emit(c, op) == WithOps(c, Append(CurrentOps(c), op))

\* current_scope().ops.pop(): nothing happens on an empty vector.
DropLast(c) ==
    IF Len(CurrentOps(c)) = 0 THEN c
    ELSE WithOps(c, SubSeq(CurrentOps(c), 1, Len(CurrentOps(c)) - 1))

\* current_scope().ops[pos] = op, pos counted from 0
Patch(c, pos, op) == WithOps(c, [CurrentOps(c) EXCEPT ![pos + 1] = op])

enter_scope(c) == Compiler(c.constants, Append(c.scopes, <<>>))

\* leave_scope: the compiler without its last scope (the popped ops are
\* CurrentOps of the compiler before).
leave_scope(c) == Compiler(c.constants, SubSeq(c.scopes, 1, Len(c.scopes) - 1))

\* add_constant with the pool's length as the index of the new constant.
AddConstantPastEnd(c, object, span) ==
    LET pool == Append(c.constants, SpannedObject(object, span))
    IN  Emit(Compiler(pool, c.scopes), OpConstant(Len(pool)))

add_constant(c, object, span) ==
    LET pool == Append(c.constants, SpannedObject(object, span))
    IN  Emit(Compiler(pool, c.scopes), OpConstant(Len(pool) - 1))

\* F applied to x, with x evaluated first: a Rust statement is finished
\* before the next one starts.
Then(x, F(_)) == CHOOSE r \in {F(v) : v \in {x}} : TRUE

RECURSIVE compile_expression(_, _), compile_statement(_, _),
          CompileLoop(_, _, _), CompileReversed(_, _, _),
          CompileEntriesReversed(_, _, _), CompileInOrder(_, _, _)

\* The for loop of compile_statements from statement i on: the compiler
\* and the kind of the last statement compiled.
CompileLoop(c, statements, i) ==
    Then(compile_statement(c, statements[i]),
         LAMBDA next :
            IF statements[i].s = "Return" \/ i = Len(statements)
              THEN [c |-> next, last_kind |-> Some(statements[i].s)]
              ELSE CompileLoop(next, statements, i + 1))

\* The end of compile_statements with ReturnValue after an expression
\* statement only.
CompileEndAfterExpression(done) ==
    LET trimmed == IF done.last_kind = Some("Expression")
                     THEN DropLast(done.c) ELSE done.c
    IN  IF done.last_kind = Some("Expression")
          THEN Emit(trimmed, OpReturnValue)
          ELSE Emit(trimmed, OpReturn)

\* What compile_statements does after its for loop.
CompileEnd(done) ==
    LET trimmed == IF done.last_kind = Some("Expression")
                     THEN DropLast(done.c) ELSE done.c
    IN  IF done.last_kind = None \/ done.last_kind = Some("Let")
          THEN Emit(trimmed, OpReturn)
          ELSE Emit(trimmed, OpReturnValue)

compile_statements(c, statements) ==
    IF Len(statements) = 0 THEN CompileEnd([c |-> c, last_kind |-> None])
    ELSE Then(CompileLoop(c, statements, 1), LAMBDA done : CompileEnd(done))

compile_statement(c, st) ==
    CASE st.s = "Expression" -> Emit(compile_expression(c, st.expr), OpPop)
      [] st.s = "Let" -> Emit(compile_expression(c, st.value), OpBind(st.name))
      [] st.s = "Return" -> compile_expression(c, st.value)

\* for element in elements.into_iter().rev(): from element i down to 1
CompileReversed(c, xs, i) ==
    IF i = 0 THEN c
    ELSE Then(compile_expression(c, xs[i]),
              LAMBDA next : CompileReversed(next, xs, i - 1))

\* for (key, value) in elements.into_iter().rev(): value, then key
CompileEntriesReversed(c, es, i) ==
    IF i = 0 THEN c
    ELSE Then(compile_expression(c, es[i][2]),
              LAMBDA c1 :
                 Then(compile_expression(c1, es[i][1]),
                      LAMBDA c2 : CompileEntriesReversed(c2, es, i - 1)))

\* for argument in arguments: from argument i on
CompileInOrder(c, xs, i) ==
    IF i > Len(xs) THEN c
    ELSE Then(compile_expression(c, xs[i]),
              LAMBDA next : CompileInOrder(next, xs, i + 1))

\* The alternative with the JumpIfNot patched to the Jump's own index
\* rather than to the op after it.
CompileAlternativeAtJump(c2, jin_pos, alternative) ==
    LET c3 == Emit(c2, OpPanic)
        jump_pos == Len(CurrentOps(c3)) - 1
        c4 == Patch(c3, jin_pos, OpJumpIfNot(jump_pos))
    IN  Then(compile_statements(c4, alternative),
             LAMBDA c5 : Patch(c5, jump_pos, OpJump(Len(CurrentOps(c5)))))

\* Expression::If: the condition, a JumpIfNot over the consequence and,
\* with an alternative, a Jump over the alternative, both back-patched.
CompileAlternative(c2, jin_pos, alternative) ==
    LET c3 == Emit(c2, OpPanic)
        jump_pos == Len(CurrentOps(c3)) - 1
        c4 == Patch(c3, jin_pos, OpJumpIfNot(Len(CurrentOps(c3))))
    IN  Then(compile_statements(c4, alternative),
             LAMBDA c5 : Patch(c5, jump_pos, OpJump(Len(CurrentOps(c5)))))

CompileConsequence(c1, expr) ==
    LET jin_pos == Len(CurrentOps(c1)) - 1
    IN  Then(compile_statements(c1, expr.consequence),
             LAMBDA c2 :
                IF IsSome(expr.alternative)
                  THEN CompileAlternative(c2, jin_pos, expr.alternative[1])
                  ELSE Patch(c2, jin_pos, OpJumpIfNot(Len(CurrentOps(c2)))))

CompileIf(c, expr) ==
    Then(compile_expression(c, expr.condition),
         LAMBDA c0 : CompileConsequence(Emit(c0, OpPanic), expr))

\* Expression::Function: the body is compiled in a scope of its own and
\* becomes a CompiledFunction constant.
CompileFunction(c, expr) ==
    Then(compile_statements(enter_scope(c), expr.body),
         LAMBDA inner :
            add_constant(leave_scope(inner),
                         OCompiledFunction(CurrentOps(inner), expr.parameters),
                         expr.span))

\* Expression::Infix: left then right, but right then left for `<`.
CompileInfix(c, expr) ==
    LET lhs == IF expr.operator = "LT" THEN expr.right ELSE expr.left
        rhs == IF expr.operator = "LT" THEN expr.left ELSE expr.right
    IN  Then(compile_expression(c, lhs),
             LAMBDA c1 :
                Then(compile_expression(c1, rhs),
                     LAMBDA c2 : Emit(c2, OpOfInfix(expr.operator))))

compile_expression(c, expr) ==
    CASE expr.e = "Infix" -> CompileInfix(c, expr)
      [] expr.e = "Integer" -> add_constant(c, OInteger(expr.value), expr.span)
      [] expr.e = "Boolean" ->
            Emit(c, IF expr.value THEN OpTrue(expr.span) ELSE OpFalse(expr.span))
      [] expr.e = "Prefix" ->
            Emit(compile_expression(c, expr.operand),
                 IF expr.operator = "Not" THEN OpNot(expr.span)
                 ELSE OpNeg(expr.span))
      [] expr.e = "If" -> CompileIf(c, expr)
      [] expr.e = "Null" -> Emit(c, OpNull(expr.span))
      [] expr.e = "Identifier" -> Emit(c, OpGet(expr.value, expr.span))
      [] expr.e = "String" -> add_constant(c, OString(expr.value), expr.span)
      [] expr.e = "Array" ->
            Emit(CompileReversed(c, expr.elements, Len(expr.elements)),
                 OpArray(Len(expr.elements), expr.span))
      [] expr.e = "Map" ->
            Emit(CompileEntriesReversed(c, expr.elements, Len(expr.elements)),
                 OpMap(Len(expr.elements), expr.span))
      [] expr.e = "Index" ->
            Then(compile_expression(c, expr.collection),
                 LAMBDA c1 : Emit(compile_expression(c1, expr.index),
                                  OpIndex(expr.span)))
      [] expr.e = "Function" -> CompileFunction(c, expr)
      [] expr.e = "Call" ->
            Then(CompileInOrder(c, expr.arguments, 1),
                 LAMBDA c1 : Emit(compile_expression(c1, expr.function),
                                  OpCall(expr.span, expr.args_span)))

\* compile without the removal of the root stream's last op.
CompileKeepingLastOp(c, program) ==
    LET body == compile_statements(enter_scope(c), program.statements)
    IN  [ops |-> CurrentOps(body), constants |-> body.constants,
         compiler |-> leave_scope(body)]

\* Compiler::compile: the Program, and the compiler as it is left behind.
compile(c, program) ==
    LET body == compile_statements(enter_scope(c), program.statements)
        final == DropLast(body)
    IN  [ops |-> CurrentOps(final), constants |-> final.constants,
         compiler |-> leave_scope(final)]


(***************************************************************************)
(* The lexer (lexer/mod.rs).  The input is a sequence of characters, each  *)
(* one byte long, so that byte offsets are character counts; offsets are   *)
(* 0-based as in the source.                                               *)
(***************************************************************************)
Whitespace == {" ", "\n", "\t"}
Letters == {"a", "b", "c", "d", "e", "f", "i", "l", "n", "r", "s", "t", "u", "x", "y"}
Digits == {"0", "1", "2", "3", "4", "5", "6", "7", "8", "9"}

is_whitespace(c) == c \in Whitespace
is_alphabetic(c) == c \in Letters
is_ascii_digit(c) == c \in Digits
is_alphanumeric(c) == c \in Letters \cup Digits

\* The keyword table of token::lookup_keyword.
Keywords ==
    <<[word |-> <<"l", "e", "t">>, kind |-> "Let"],
      [word |-> <<"f", "n">>, kind |-> "Fn"],
      [word |-> <<"t", "r", "u", "e">>, kind |-> "True"],
      [word |-> <<"f", "a", "l", "s", "e">>, kind |-> "False"],
      [word |-> <<"i", "f">>, kind |-> "If"],
      [word |-> <<"e", "l", "s", "e">>, kind |-> "Else"],
      [word |-> <<"r", "e", "t", "u", "r", "n">>, kind |-> "Return"],
      [word |-> <<"n", "u", "l", "l">>, kind |-> "Null"]>>

lookup_keyword(word) ==
    IF \E i \in 1..Len(Keywords) : Keywords[i].word = word
      THEN Some(Keywords[CHOOSE i \in 1..Len(Keywords) : Keywords[i].word = word].kind)
      ELSE None

\* The kinds of the one-character tokens that need no lookahead.
SingleKind(c) ==
    CASE c = "+" -> "Plus"   [] c = "-" -> "Minus"  [] c = "/" -> "Div"
      [] c = "*" -> "Mul"    [] c = "<" -> "LT"     [] c = ">" -> "GT"
      [] c = ";" -> "Semicolon"
      [] c = "(" -> "LParen" [] c = ")" -> "RParen" [] c = "," -> "Comma"
      [] c = "{" -> "LBrace" [] c = "}" -> "RBrace"
      [] c = "[" -> "LBracket" [] c = "]" -> "RBracket" [] c = ":" -> "Colon"
      [] OTHER -> "Illegal"

Token(kind, literal, span) == [kind |-> kind, literal |-> literal, span |-> span]

\* input[from..]'s first character
CharAt(input, from) == IF from < Len(input) THEN Some(input[from + 1]) ELSE None

\* Lexer::new
NewLexer(input) ==
    [input |-> input, pos |-> 0,
     next_pos |-> IF Len(input) > 0 THEN 1 ELSE 0,
     char |-> CharAt(input, 0)]

read_char(l) ==
    LET c == CharAt(l.input, l.next_pos)
    IN  [l EXCEPT !.char = c, !.pos = l.next_pos,
                  !.next_pos = IF IsSome(c) THEN l.next_pos + 1 ELSE l.next_pos]

peek_char(l) == CharAt(l.input, l.next_pos)

RECURSIVE SkipWhitespace(_), ReadWhile(_, _)

\* while self.char?.is_whitespace() { self.read_char() }
SkipWhitespace(l) ==
    IF IsSome(l.char) /\ is_whitespace(l.char[1])
      THEN Then(read_char(l), LAMBDA next : SkipWhitespace(next))
    ELSE l

\* The closures given to is_some_and in the three scanning loops.
Accepts(loop, c) ==
    CASE loop = "String" -> c # "\""
      [] loop = "Ident" -> is_alphanumeric(c) \/ c = "_"
      [] loop = "Int" -> is_ascii_digit(c)

\* while self.peek_char().is_some_and(accepts) { self.read_char() }
ReadWhile(l, loop) ==
    IF IsSome(peek_char(l)) /\ Accepts(loop, peek_char(l)[1])
      THEN Then(read_char(l), LAMBDA next : ReadWhile(next, loop))
    ELSE l

\* The match on the current character: the kind of the token, and the lexer
\* standing on the token's last character.
Scan(l, start) ==
    LET c == l.char[1]
        two(kind, one) ==
            IF peek_char(l) = Some("=") THEN [kind |-> kind, lexer |-> read_char(l)]
            ELSE [kind |-> one, lexer |-> l]
    IN  CASE c = "=" -> two("Eq", "Assign")
          [] c = "!" -> two("Neq", "Not")
          [] c = "\"" ->
                Then(ReadWhile(l, "String"),
                     LAMBDA w : [kind |-> "String", lexer |-> read_char(w)])
          [] is_alphabetic(c) \/ c = "_" ->
                Then(ReadWhile(l, "Ident"), LAMBDA w :
                  LET word == SubSeq(l.input, start + 1, w.next_pos)
                      keyword == lookup_keyword(word)
                  IN  [kind |-> IF IsSome(keyword) THEN keyword[1] ELSE "Ident",
                       lexer |-> w])
          [] is_ascii_digit(c) ->
                [kind |-> "Int", lexer |-> ReadWhile(l, "Int")]
          [] OTHER -> [kind |-> SingleKind(c), lexer |-> l]

\* Lexer::next: the lexer afterwards and Some(token), None at the end of the
\* input, or a panic where the literal's slice has its start after its end.
LexerNext(l0) ==
    Then(SkipWhitespace(l0), LAMBDA l :
      IF ~IsSome(l.char) THEN [lexer |-> l, token |-> None, panic |-> FALSE]
      ELSE Then(Scan(l, l.pos), LAMBDA scanned :
             Then(read_char(scanned.lexer), LAMBDA after :
               LET start == l.pos
                   end == IF scanned.kind = "String" THEN after.pos - 1 ELSE after.pos
                   literal_start == IF scanned.kind = "String" THEN start + 1 ELSE start
               IN  IF literal_start > end \/ end > Len(l.input)
                     THEN [lexer |-> after, token |-> None, panic |-> TRUE]
                     ELSE [lexer |-> after,
                           token |-> Some(Token(scanned.kind,
                                                SubSeq(l.input, literal_start + 1, end),
                                                Span(start, after.pos))),
                           panic |-> FALSE])))

(***************************************************************************)
(* The parser (parser/mod.rs).  A parser is the lexer with the two tokens  *)
(* read ahead; panic records that a call of Lexer::next has panicked.      *)
(* Every parsing function returns the parser it leaves behind and its      *)
(* Result; the trees are built with the constructors above, names and      *)
(* literals being sequences of characters.                                 *)
(***************************************************************************)
Parser(l, current, peek, panic) ==
    [lexer |-> l, current |-> current, peek |-> peek, panic |-> panic]

\* Parser::new
NewParser(input) ==
    Then(LexerNext(NewLexer(input)), LAMBDA a :
      Then(LexerNext(a.lexer), LAMBDA b :
        Parser(b.lexer, a.token, b.token, a.panic \/ b.panic)))

next_token(p) ==
    Then(LexerNext(p.lexer),
         LAMBDA r : Parser(r.lexer, p.peek, r.token, p.panic \/ r.panic))

\* Option::take on self.current
TakeCurrent(p) == [p EXCEPT !.current = None]

Parsing(p, r) == [p |-> p, r |-> r]

Unexpected(expected, found, span) ==
    [kind |-> "Unexpected", expected |-> expected, found |-> found, span |-> span]

\* The kind of an Option<Token>
KindOf(token) == IF IsSome(token) THEN Some(token[1].kind) ELSE None

expect_next(p, expected) ==
    Then(next_token(p), LAMBDA q :
      LET found == q.current
          size == Len(q.lexer.input)
      IN
        IF IsSome(found) /\ found[1].kind = expected
          THEN Parsing(TakeCurrent(q), Ok(found[1]))
          ELSE Parsing(TakeCurrent(q),
                       Err(<<Unexpected(expected, KindOf(found),
                                        Span(IF IsSome(found)
                                               THEN found[1].span.start ELSE size,
                                             size))>>)))

peek_is(p, kind) == IsSome(p.peek) /\ p.peek[1].kind = kind

unexpected_eof(p) ==
    Unexpected("expression", None,
               Span(Len(p.lexer.input), Len(p.lexer.input)))

\* enum ExpressionKind, in the order of its declaration, which is the order
\* the derived Ord compares by.
ExpressionKinds == <<"Base", "Equal", "Cmp", "Sum", "Product", "Prefix", "Call">>

Rank(kind) == CHOOSE i \in 1..Len(ExpressionKinds) : ExpressionKinds[i] = kind

\* kind < other
Less(kind, other) == Rank(kind) < Rank(other)

\* A ladder on which + and - stand above * and /.
ExpressionKindSwapped(tokenKind) ==
    CASE tokenKind \in {"Eq", "Neq"} -> "Equal"
      [] tokenKind \in {"LT", "GT"} -> "Cmp"
      [] tokenKind \in {"Plus", "Minus"} -> "Product"
      [] tokenKind \in {"Mul", "Div"} -> "Sum"
      [] tokenKind = "LParen" -> "Call"
      [] OTHER -> "Base"

\* impl From<TokenKind> for ExpressionKind
ExpressionKindOf(tokenKind) ==
    CASE tokenKind \in {"Eq", "Neq"} -> "Equal"
      [] tokenKind \in {"LT", "GT"} -> "Cmp"
      [] tokenKind \in {"Plus", "Minus"} -> "Sum"
      [] tokenKind \in {"Mul", "Div"} -> "Product"
      [] tokenKind = "LParen" -> "Call"
      [] OTHER -> "Base"

\* TokenKind::prefix_parse: the prefix parser of a token kind, if it has one.
prefix_parse(tokenKind) ==
    CASE tokenKind = "Ident" -> Some("parse_identifier")
      [] tokenKind = "Int" -> Some("parse_integer")
      [] tokenKind \in {"Not", "Minus"} -> Some("parse_prefix")
      [] tokenKind \in {"True", "False"} -> Some("parse_boolean")
      [] tokenKind = "LParen" -> Some("parse_grouped_expression")
      [] tokenKind = "If" -> Some("parse_if")
      [] tokenKind = "Fn" -> Some("parse_function")
      [] OTHER -> None

\* TokenKind::is_infix
is_infix(tokenKind) ==
    tokenKind \in {"Plus", "Minus", "Mul", "Div", "Eq", "Neq", "LT", "GT"}

\* The InfixOperator of parse_infix's match
InfixOperatorOf(tokenKind) ==
    CASE tokenKind = "Plus" -> "Add"   [] tokenKind = "Minus" -> "Sub"
      [] tokenKind = "Mul" -> "Mul"    [] tokenKind = "Div" -> "Div"
      [] tokenKind = "Eq" -> "Eq"      [] tokenKind = "Neq" -> "Neq"
      [] tokenKind = "LT" -> "LT"      [] tokenKind = "GT" -> "GT"

DigitCharacters == <<"0", "1", "2", "3", "4", "5", "6", "7", "8", "9">>

RECURSIVE ParseDigits(_, _, _)

\* str::parse::<i64> on a run of digits, from digit i on
ParseDigits(literal, i, value) ==
    IF i > Len(literal) THEN value
    ELSE ParseDigits(literal, i + 1,
                     10 * value + (CHOOSE d \in 0..9 :
                                       DigitCharacters[d + 1] = literal[i]))

parse_identifier(p, token) == Parsing(p, Ok(EId(token.literal)))

parse_integer(p, token) == Parsing(p, Ok(EInt(ParseDigits(token.literal, 1, 0))))

parse_boolean(p, token) == Parsing(p, Ok(EBool(token.literal = <<"t", "r", "u", "e">>)))

\* The ? of Rust: F applied to what x left behind, unless x failed.
Try(x, F(_)) == Then(x, LAMBDA out : IF IsOk(out.r) THEN F(out) ELSE out)

RECURSIVE parse_expression(_, _, _), InfixLoop(_, _, _), PrefixParser(_, _),
          parse_call(_, _), parse_call_arguments(_), ArgumentsLoop(_, _),
          parse_prefix(_, _), parse_infix(_, _, _),
          parse_grouped_expression(_, _), parse_if(_, _),
          parse_block_statement(_), BlockLoop(_, _), parse_function(_, _),
          parse_statement(_), parse_let_statement(_, _),
          parse_return_statement(_, _)

\* parse_expression: token is Some(first token) or None, where the first
\* token is the next one of the parser.
parse_expression(p, token, kind) ==
    Then(IF IsSome(token) THEN p ELSE next_token(p), LAMBDA n :
      LET q == IF IsSome(token) THEN n ELSE TakeCurrent(n)
          head == IF IsSome(token) THEN token ELSE n.current
      IN  IF ~IsSome(head) THEN Parsing(q, Err(<<unexpected_eof(q)>>))
          ELSE IF ~IsSome(prefix_parse(head[1].kind))
            THEN Parsing(q, Err(<<Unexpected("expression", KindOf(head),
                                             head[1].span)>>))
          ELSE Try(PrefixParser(q, head[1]),
                   LAMBDA left : InfixLoop(left.p, left.r.v, kind)))

\* The call of the prefix parser of the token's kind.
PrefixParser(p, token) ==
    LET name == prefix_parse(token.kind)[1]
    IN  CASE name = "parse_identifier" -> parse_identifier(p, token)
          [] name = "parse_integer" -> parse_integer(p, token)
          [] name = "parse_prefix" -> parse_prefix(p, token)
          [] name = "parse_boolean" -> parse_boolean(p, token)
          [] name = "parse_grouped_expression" -> parse_grouped_expression(p, token)
          [] name = "parse_if" -> parse_if(p, token)
          [] name = "parse_function" -> parse_function(p, token)

\* The while loop of parse_expression.
InfixLoop(p, left, kind) ==
    IF /\ IsSome(p.peek)
       /\ p.peek[1].kind # "Semicolon"
       /\ Less(kind, ExpressionKindOf(p.peek[1].kind))
      THEN LET peek == p.peek[1]
               taken == [p EXCEPT !.peek = None]
           IN  IF ~is_infix(peek.kind) /\ peek.kind # "LParen"
                 THEN Parsing(taken, Ok(left))
               ELSE Then(next_token(taken), LAMBDA q :
                      Try(IF peek.kind = "LParen" THEN parse_call(q, left)
                          ELSE parse_infix(q, peek, left),
                          LAMBDA out : InfixLoop(out.p, out.r.v, kind)))
      ELSE Parsing(p, Ok(left))

parse_call(p, function) ==
    Try(parse_call_arguments(p), LAMBDA arguments :
      Try(expect_next(arguments.p, "RParen"), LAMBDA close :
        Parsing(close.p, Ok(ECall(function, arguments.r.v)))))

parse_call_arguments(p) ==
    IF peek_is(p, "RParen") THEN Parsing(next_token(p), Ok(<<>>))
    ELSE Try(parse_expression(p, None, "Base"),
             LAMBDA head : ArgumentsLoop(head.p, <<head.r.v>>))

\* while self.peek_is(Comma) of parse_call_arguments
ArgumentsLoop(p, arguments) ==
    IF peek_is(p, "Comma")
      THEN Then(next_token(p), LAMBDA q :
             Try(parse_expression(q, None, "Base"), LAMBDA argument :
               ArgumentsLoop(argument.p, Append(arguments, argument.r.v))))
      ELSE Parsing(p, Ok(arguments))

parse_prefix(p, token) ==
    Try(parse_expression(p, None, "Prefix"), LAMBDA operand :
      Parsing(operand.p,
              Ok(EPrefix(IF token.kind = "Not" THEN "Not" ELSE "Neg",
                         operand.r.v))))

parse_infix(p, token, left) ==
    Try(parse_expression(p, None, ExpressionKindOf(token.kind)), LAMBDA right :
      Parsing(right.p, Ok(EInfix(left, InfixOperatorOf(token.kind), right.r.v))))

parse_grouped_expression(p, token) ==
    Try(parse_expression(p, None, "Base"), LAMBDA expr :
      Try(expect_next(expr.p, "RParen"), LAMBDA close :
        Parsing(close.p, expr.r)))

\* The end of parse_if, from the peek at else on.
ParseAlternative(condition, consequence) ==
    IF peek_is(consequence.p, "Else")
      THEN Then(next_token(consequence.p), LAMBDA q :
             Try(expect_next(q, "LBrace"), LAMBDA lbrace :
               Try(parse_block_statement(lbrace.p), LAMBDA alternative :
                 Parsing(alternative.p,
                         Ok(EIfElse(condition, consequence.r.v, alternative.r.v))))))
      ELSE Parsing(consequence.p, Ok(EIf(condition, consequence.r.v)))

parse_if(p, token) ==
    Try(expect_next(p, "LParen"), LAMBDA open :
      Try(parse_expression(open.p, None, "Base"), LAMBDA condition :
        Try(expect_next(condition.p, "RParen"), LAMBDA close :
          Try(expect_next(close.p, "LBrace"), LAMBDA lbrace :
            Try(parse_block_statement(lbrace.p), LAMBDA consequence :
              ParseAlternative(condition.r.v, consequence))))))

\* parse_block_statement, after the opening brace: the statements.
parse_block_statement(p) == BlockLoop(p, <<>>)

BlockLoop(p, block) ==
    IF IsSome(p.peek) /\ p.peek[1].kind # "RBrace"
      THEN Then(next_token(p), LAMBDA q :
             Try(parse_statement(q), LAMBDA statement :
               BlockLoop(statement.p, Append(block, statement.r.v))))
      ELSE Try(expect_next(p, "RBrace"), LAMBDA close :
             Parsing(close.p, Ok(block)))

RECURSIVE ParametersLoop(_, _)

\* while self.peek_is(Comma) of parse_function_parameters, and the closing
\* parenthesis
ParametersLoop(p, identifiers) ==
    IF peek_is(p, "Comma")
      THEN Then(next_token(p), LAMBDA q :
             Try(expect_next(q, "Ident"), LAMBDA name :
               ParametersLoop(name.p, Append(identifiers, name.r.v.literal))))
      ELSE Try(expect_next(p, "RParen"), LAMBDA close :
             Parsing(close.p, Ok(identifiers)))

parse_function_parameters(p) ==
    IF peek_is(p, "RParen") THEN Parsing(next_token(p), Ok(<<>>))
    ELSE Try(expect_next(p, "Ident"),
             LAMBDA head : ParametersLoop(head.p, <<head.r.v.literal>>))

parse_function(p, token) ==
    Try(expect_next(p, "LParen"), LAMBDA open :
      Try(parse_function_parameters(open.p), LAMBDA parameters :
        Try(expect_next(parameters.p, "LBrace"), LAMBDA lbrace :
          Try(parse_block_statement(lbrace.p), LAMBDA body :
            Parsing(body.p, Ok(EFn(parameters.r.v, body.r.v)))))))

parse_let_statement(p, token) ==
    Try(expect_next(p, "Ident"), LAMBDA name :
      Try(expect_next(name.p, "Assign"), LAMBDA assign :
        Try(parse_expression(assign.p, None, "Base"), LAMBDA value :
          Parsing(value.p, Ok(SLet(name.r.v.literal, value.r.v))))))

parse_return_statement(p, token) ==
    Try(parse_expression(p, None, "Base"),
        LAMBDA value : Parsing(value.p, Ok(SReturn(value.r.v))))

parse_expression_statement(p, token) ==
    Try(parse_expression(p, Some(token), "Base"),
        LAMBDA expr : Parsing(expr.p, Ok(SExpr(expr.r.v))))

parse_statement(p) ==
    IF ~IsSome(p.current)
      THEN Parsing(p, Err(<<Unexpected("statement", None,
                                       Span(Len(p.lexer.input),
                                            Len(p.lexer.input)))>>))
    ELSE LET token == p.current[1]
             q == TakeCurrent(p)
         IN  Try(CASE token.kind = "Let" -> parse_let_statement(q, token)
                   [] token.kind = "Return" -> parse_return_statement(q, token)
                   [] OTHER -> parse_expression_statement(q, token),
                 LAMBDA out :
                   Parsing(IF peek_is(out.p, "Semicolon") THEN next_token(out.p)
                           ELSE out.p,
                           out.r))

RECURSIVE SkipToSemicolon(_)

\* while self.next_token().as_ref().is_some_and(|t| t.kind != Semicolon) {}
SkipToSemicolon(p) ==
    Then(next_token(p), LAMBDA q :
      IF IsSome(q.current) /\ q.current[1].kind # "Semicolon"
        THEN SkipToSemicolon(q)
        ELSE q)

(***************************************************************************)
(* The virtual machine (vm/mod.rs, vm/stack.rs, vm/frame.rs).              *)
(***************************************************************************)
VARIABLES
    pid,        \* which program of Programs is run
    program,    \* Option<code::Program>: the compiler's output
    twResult,   \* Option<Result>: what Environment::eval_program returned
    stack,      \* VM.stack, bottom first
    frames,     \* VM.frames, root first
    constants,  \* VM.constants
    vmStatus,   \* "idle", "running", or how run() ended
    vmResult,   \* Option<Result>: what VM::run returned
    lexer,      \* the Lexer: input, pos, next_pos, char
    lexed,      \* Option<Token>: what the last call of Lexer::next returned
    lexStatus,  \* "idle", "ready", "end" after a None, or "panic"
    parser,     \* the Parser: lexer, current, peek
    programStatements,  \* parse_program's statements
    programErrors,      \* parse_program's errors
    parseStatus,        \* "idle", "parsing", "done", or "panic"
    parseResult         \* Option<Result>: what parse returned

\* The state of the back-ends and the state of the front-end.
backVars == <<pid, program, twResult, stack, frames, constants, vmStatus, vmResult>>

lexerVars == <<lexer, lexed, lexStatus>>

parserVars == <<parser, programStatements, programErrors, parseStatus, parseResult>>

frontVars == <<lexerVars, parserVars>>

vars == <<pid, program, twResult, stack, frames, constants, vmStatus, vmResult,
          lexer, lexed, lexStatus,
          parser, programStatements, programErrors, parseStatus, parseResult>>

\* Stack<T, const SIZE: usize = 2048>
StackSize == 2048

Frame(function, call_span) ==
    [function |-> function, ip |-> 0, call_span |-> call_span, locals |-> NoValues]

current_frame == frames[Len(frames)]

\* current_frame().ops().get(current_frame().ip) is Some(op)
HasOp == current_frame.ip < Len(current_frame.function.ops)

CurrentOp == current_frame.function.ops[current_frame.ip + 1]

\* What one pass of the run loop leaves behind.
Running(st, fs) == [stack |-> st, frames |-> fs, status |-> "running", result |-> None]
Failed(st, fs, error) ==
    [stack |-> st, frames |-> fs, status |-> "error", result |-> Some(Err(<<error>>))]
Crashed(st, fs, msg) ==
    [stack |-> st, frames |-> fs, status |-> "panic", result |-> Some(Panic(msg))]

\* Stack::push: data[top] = value; top += 1
StackPush(st, fs, value) ==
    IF Len(st) >= StackSize THEN Crashed(st, fs, "index out of bounds")
    ELSE Running(Append(st, value), fs)

Top(st) == st[Len(st)]
Below(st, n) == SubSeq(st, 1, Len(st) - n)

\* Stack::drain(n): up to n values, the top first.
Drain(st, n) ==
    LET m == Min(n, Len(st))
    IN  [taken |-> [i \in 1..m |-> st[Len(st) + 1 - i]], rest |-> Below(st, m)]

SetIp(fs, ip) == [fs EXCEPT ![Len(fs)].ip = ip]

\* The binary dispatch of execute_binary_op on the popped operands.
ExecuteBinaryOp(st, fs, opName, left, right) ==
    LET span == Join(left.span, right.span)
        operator == IF left.span.start > right.span.end THEN "LT" ELSE opName
        l == left.object
        r == right.object
        ints == l.k = "Integer" /\ r.k = "Integer"
        noFunction == l.k # "CompiledFunction" /\ r.k # "CompiledFunction"
        value(o) == StackPush(st, fs, SpannedObject(o, span))
    IN  CASE operator = "Add" /\ ints -> value(OInteger(l.v + r.v))
          [] operator = "Add" /\ l.k = "String" /\ r.k = "String" ->
                value(OString(l.v \o r.v))
          [] operator = "Sub" /\ ints -> value(OInteger(l.v - r.v))
          [] operator = "Mul" /\ ints -> value(OInteger(l.v * r.v))
          [] operator = "Div" /\ ints ->
                IF r.v = 0 THEN Failed(st, fs, DivisionByZero)
                ELSE value(OInteger(TruncDiv(l.v, r.v)))
          [] operator = "Eq" /\ noFunction ->
                IF ObjectEq(l, r) = "panic" THEN Crashed(st, fs, "unreachable")
                ELSE value(OBoolean(ObjectEq(l, r) = "true"))
          [] operator = "Neq" /\ noFunction ->
                IF ObjectEq(l, r) = "panic" THEN Crashed(st, fs, "unreachable")
                ELSE value(OBoolean(ObjectEq(l, r) = "false"))
          [] operator \in {"GT", "LT"} /\ ints -> value(OBoolean(l.v > r.v))
          [] OTHER -> Failed(st, fs, InvalidOperands(operator, l, r))

\* Op::Add | Sub | Mul | Div | Eq | Neq | GT
RunBinary(op) ==
    IF Len(stack) = 0 THEN Failed(stack, frames, Underflow)
    ELSE IF Len(stack) = 1 THEN Failed(Below(stack, 1), frames, Underflow)
    ELSE ExecuteBinaryOp(Below(stack, 2), frames, op.op,
                         stack[Len(stack) - 1], Top(stack))

RunConstant(op) ==
    IF op.i >= Len(constants) THEN Crashed(stack, frames, "index out of bounds")
    ELSE StackPush(stack, frames, constants[op.i + 1])

RunPop(op) == Running(IF Len(stack) = 0 THEN stack ELSE Below(stack, 1), frames)

\* Op::True | False | Null
RunLiteral(op) ==
    StackPush(stack, frames,
              SpannedObject(CASE op.op = "True" -> OBoolean(TRUE)
                              [] op.op = "False" -> OBoolean(FALSE)
                              [] op.op = "Null" -> ONull,
                            op.span))

RunNeg(op) ==
    IF Len(stack) = 0 THEN Failed(stack, frames, Underflow)
    ELSE IF Top(stack).object.k # "Integer"
      THEN Failed(Below(stack, 1), frames, InvalidOperand("Neg", Top(stack).object))
    ELSE StackPush(Below(stack, 1), frames,
                   SpannedObject(OInteger(-Top(stack).object.v), op.span))

RunNot(op) ==
    IF Len(stack) = 0 THEN Failed(stack, frames, Underflow)
    ELSE StackPush(Below(stack, 1), frames,
                   SpannedObject(OBoolean(~truthy(Top(stack).object)), op.span))

RunJumpIfNot(op) ==
    IF Len(stack) = 0 THEN Failed(stack, frames, Underflow)
    ELSE IF ~truthy(Top(stack).object)
      THEN Running(Below(stack, 1), SetIp(frames, op.target - 1))
    ELSE Running(Below(stack, 1), frames)

RunJump(op) == Running(stack, SetIp(frames, op.target - 1))

RunPanic(op) == Crashed(stack, frames, "Panicked! Why?")

\* Op::Bind: the popped value becomes a local of the current frame.
RunBind(op) ==
    IF Len(stack) = 0 THEN Failed(stack, frames, Underflow)
    ELSE Running(Below(stack, 1),
                 [frames EXCEPT ![Len(frames)].locals =
                      Insert(@, op.name, Top(stack))])

\* Op::Get: the name is looked up in the locals of the current frame.
RunGet(op) ==
    IF op.name \notin DOMAIN current_frame.locals
      THEN Failed(stack, frames, UndefinedVariable(op.name))
    ELSE StackPush(stack, frames,
                   SpannedObject(current_frame.locals[op.name].object, op.span))

Objects(spanned) == [i \in 1..Len(spanned) |-> spanned[i].object]

RunArray(op) ==
    LET d == Drain(stack, op.size)
    IN  StackPush(d.rest, frames, SpannedObject(OArray(Objects(d.taken)), op.span))

RECURSIVE CollectPairs(_, _, _)

\* tuples::<(_, _)>().collect::<HashMap<_, _>>() from pair i on: the map,
\* unless a key cannot be hashed.
CollectPairs(objects, i, map) ==
    IF 2 * i > Len(objects) THEN [panic |-> FALSE, map |-> map]
    ELSE IF HashPanics(objects[2 * i - 1]) THEN [panic |-> TRUE, map |-> map]
    ELSE CollectPairs(objects, i + 1,
                      MapInsert(map, objects[2 * i - 1], objects[2 * i]))

RunMap(op) ==
    LET d == Drain(stack, op.size * 2)
        collected == CollectPairs(Objects(d.taken), 1, <<>>)
    IN  IF collected.panic THEN Crashed(d.rest, frames, "unreachable")
        ELSE IF Len(collected.map) # op.size THEN Failed(d.rest, frames, Underflow)
        ELSE StackPush(d.rest, frames, SpannedObject(OMap(collected.map), op.span))

\* The match of Op::Index on the popped collection and index.
IndexValue(st, fs, collection, index, span) ==
    CASE collection.k = "Array" ->
            IF index.k # "Integer" THEN Failed(st, fs, NotAnIndex)
            ELSE IF index.v < 0 \/ index.v >= Len(collection.v)
              THEN Failed(st, fs, OutOfBounds(index.v, Len(collection.v)))
            ELSE StackPush(st, fs, SpannedObject(collection.v[index.v + 1], span))
      [] collection.k = "Map" ->
            IF index.k \in {"CompiledFunction", "Map"}
              THEN Failed(st, fs, InvalidKey(ObjectKind(index)))
            ELSE IF HashPanics(index) THEN Crashed(st, fs, "unreachable")
            ELSE StackPush(st, fs,
                           SpannedObject(MapGetOrNull(collection.v, index), span))
      [] OTHER -> Failed(st, fs, NotACollection)

RunIndex(op) ==
    IF Len(stack) = 0 THEN Failed(stack, frames, Underflow)
    ELSE IF Len(stack) = 1 THEN Failed(Below(stack, 1), frames, Underflow)
    ELSE IndexValue(Below(stack, 2), frames, stack[Len(stack) - 1].object,
                    Top(stack).object, op.span)

RECURSIVE BindArguments(_, _, _, _)

\* The pairing without rev(): the first parameter gets the value drained
\* first, the top of the stack.
BindArgumentsTopFirst(locals, params, args, i) ==
    LET paired == {j \in i..Len(args) : j <= Len(params)}
    IN  [n \in (DOMAIN locals) \cup {params[j] : j \in paired} |->
            IF \E j \in paired : params[j] = n
              THEN args[CHOOSE j \in paired : params[j] = n]
              ELSE locals[n]]

\* for (param, value) in params.iter().rev().zip(args): from pair i on
BindArguments(locals, params, args, i) ==
    IF i > Len(args) THEN locals
    ELSE BindArguments(Insert(locals, params[Len(params) + 1 - i], args[i]),
                       params, args, i + 1)

\* Op::Call: the callee is popped, then one argument per parameter; the
\* new frame gets the arguments as its locals.
RunCall(op) ==
    IF Len(stack) = 0 THEN Failed(stack, frames, Underflow)
    ELSE IF Top(stack).object.k # "CompiledFunction"
      THEN Failed(Below(stack, 1), frames, NotAFunction)
    ELSE LET function == Top(stack).object
             d == Drain(Below(stack, 1), Len(function.params))
             frame == Frame(function, op.call_span)
         IN  IF Len(d.taken) # Len(function.params)
               THEN Failed(d.rest, frames,
                           WrongNumberOfArguments(Len(function.params),
                                                  Len(d.taken)))
             ELSE Running(d.rest,
                          Append(frames,
                                 [frame EXCEPT !.locals =
                                     BindArguments(NoValues, function.params,
                                                   d.taken, 1)]))

\* Op::ReturnValue: the popped value is pushed again under the span of the
\* call, after the current frame is popped.
RunReturnValue(op) ==
    IF Len(stack) = 0 THEN Failed(stack, frames, Underflow)
    ELSE IF Len(frames) = 0 THEN Failed(Below(stack, 1), frames, Underflow)
    ELSE StackPush(Below(stack, 1), Below(frames, 1),
                   SpannedObject(Top(stack).object, current_frame.call_span))

RunReturn(op) ==
    IF Len(frames) = 0 THEN Failed(stack, frames, Underflow)
    ELSE StackPush(stack, Below(frames, 1),
                   SpannedObject(ONull, current_frame.call_span))

\* self.current_frame_mut().ip += 1 at the end of a pass of the loop;
\* current_frame_mut unwraps the last frame.
Advance(out) ==
    IF out.status # "running" THEN out
    ELSE IF Len(out.frames) = 0
      THEN Crashed(out.stack, out.frames, "called Option::unwrap() on a None value")
    ELSE Running(out.stack, SetIp(out.frames, out.frames[Len(out.frames)].ip + 1))

\* The loop exits: Ok(self.stack.pop().map(|o| o.object).unwrap_or(Null))
RunResult ==
    IF Len(stack) = 0 THEN Ok(ONull) ELSE Ok(Top(stack).object)


(***************************************************************************)
(* The programs run.  A program id is <<family, a, b, c>>; Source gives    *)
(* the statements of the program as the parser produces them.              *)
(***************************************************************************)
Ids(family, A, B, C) == {<<family, a, b, c>> : a \in A, b \in B, c \in C}

InfixOperators == <<"Add", "Sub", "Mul", "Div", "LT", "GT", "Eq", "Neq">>

\* a op b;
InfixSource(op, a, b) == <<SExpr(EInfix(EInt(a), InfixOperators[op], EInt(b)))>>

\* if (c1) { 1 } else { 2 }, and the same with an if/else nested in the
\* consequence (shape 2) or in the alternative (shape 3).
IfSource(shape, c1, c2) ==
    LET inner == EIfElse(EBool(c2 = 1), <<SExpr(EInt(1))>>, <<SExpr(EInt(2))>>)
    IN  CASE shape = 1 ->
                <<SExpr(EIfElse(EBool(c1 = 1), <<SExpr(EInt(1))>>, <<SExpr(EInt(2))>>))>>
          [] shape = 2 ->
                <<SExpr(EIfElse(EBool(c1 = 1), <<SExpr(inner)>>, <<SExpr(EInt(3))>>))>>
          [] shape = 3 ->
                <<SExpr(EIfElse(EBool(c1 = 1), <<SExpr(EInt(3))>>, <<SExpr(inner)>>))>>

\* let fib = fn(n) { if (n < 2) { n } else { fib(n-1) + fib(n-2) } }; fib(n);
FibSource(n) ==
    <<SLet("fib",
           EFn(<<"n">>,
               <<SExpr(EIfElse(EInfix(EId("n"), "LT", EInt(2)),
                               <<SExpr(EId("n"))>>,
                               <<SExpr(EInfix(
                                    ECall(EId("fib"),
                                          <<EInfix(EId("n"), "Sub", EInt(1))>>),
                                    "Add",
                                    ECall(EId("fib"),
                                          <<EInfix(EId("n"), "Sub", EInt(2))>>)))>>))>>)),
      SExpr(ECall(EId("fib"), <<EInt(n)>>))>>

\* let make = fn(x) { fn(y) { x + y } }; let add5 = make(m); add5(k);
\* with again = 1 another call add5(0) comes first.
MakeAdderSource(m, k, again) ==
    <<SLet("make", EFn(<<"x">>,
                       <<SExpr(EFn(<<"y">>,
                                   <<SExpr(EInfix(EId("x"), "Add", EId("y")))>>))>>)),
      SLet("add5", ECall(EId("make"), <<EInt(m)>>))>>
    \o (IF again = 1 THEN <<SExpr(ECall(EId("add5"), <<EInt(0)>>))>> ELSE <<>>)
    \o <<SExpr(ECall(EId("add5"), <<EInt(k)>>))>>

\* A function body that reads a name bound in an enclosing scope:
\*   1: let x = 5; let f = fn() { x }; f();
\*   2: fn(x) { fn() { x }() }(5);
\*   3: fn() { let y = 5; fn() { y }() }();
EnclosingSource(variant) ==
    CASE variant = 1 ->
            <<SLet("x", EInt(5)),
              SLet("f", EFn(<<>>, <<SExpr(EId("x"))>>)),
              SExpr(ECall(EId("f"), <<>>))>>
      [] variant = 2 ->
            <<SExpr(ECall(EFn(<<"x">>,
                              <<SExpr(ECall(EFn(<<>>, <<SExpr(EId("x"))>>), <<>>))>>),
                          <<EInt(5)>>))>>
      [] variant = 3 ->
            <<SExpr(ECall(EFn(<<>>,
                              <<SLet("y", EInt(5)),
                                SExpr(ECall(EFn(<<>>, <<SExpr(EId("y"))>>), <<>>))>>),
                          <<>>))>>

\* return inside if-blocks:
\*   1: if (10 > 1) { if (10 > 1) { return 10; } return 1; }
\*   2: fn() { if (true) { return 10; } 1 }();
\*   3: return 10; 9;
\*   4: fn() { return 10; 1 }();
ReturnSource(variant) ==
    LET tenOverOne == EInfix(EInt(10), "GT", EInt(1))
    IN  CASE variant = 1 ->
                <<SExpr(EIf(tenOverOne,
                            <<SExpr(EIf(tenOverOne, <<SReturn(EInt(10))>>)),
                              SReturn(EInt(1))>>))>>
          [] variant = 2 ->
                <<SExpr(ECall(EFn(<<>>,
                                  <<SExpr(EIf(EBool(TRUE), <<SReturn(EInt(10))>>)),
                                    SExpr(EInt(1))>>),
                              <<>>))>>
          [] variant = 3 -> <<SReturn(EInt(10)), SExpr(EInt(9))>>
          [] variant = 4 ->
                <<SExpr(ECall(EFn(<<>>, <<SReturn(EInt(10)), SExpr(EInt(1))>>),
                              <<>>))>>

IntrinsicOf == <<"push", "first", "last", "rest", "len">>

\* The array literal [1, ..., n]
Upto(n) == EArray([i \in 1..n |-> EInt(i)])

\* let a = [1, ..., n]; let r = f(a); [a, r];   (push gets the second
\* argument 4), and with discard = 1:  let a = [1, ..., n]; f(a); a;
IntrinsicSource(f, n, discard) ==
    LET call == ECall(EId(IntrinsicOf[f]),
                      IF IntrinsicOf[f] = "push" THEN <<EId("a"), EInt(4)>>
                      ELSE <<EId("a")>>)
    IN  IF discard = 1
          THEN <<SLet("a", Upto(n)), SExpr(call), SExpr(EId("a"))>>
          ELSE <<SLet("a", Upto(n)), SLet("r", call),
                 SExpr(EArray(<<EId("a"), EId("r")>>))>>

\* The key expressions: integer, boolean, string, array, map, function.
KeyKinds == <<"Integer", "Boolean", "String", "Array", "Map", "Function">>

KeyExpression(kind) ==
    CASE KeyKinds[kind] = "Integer" -> EInt(1)
      [] KeyKinds[kind] = "Boolean" -> EBool(TRUE)
      [] KeyKinds[kind] = "String" -> EStr("a")
      [] KeyKinds[kind] = "Array" -> EArray(<<EInt(1)>>)
      [] KeyKinds[kind] = "Map" -> EMap(<<>>)
      [] KeyKinds[kind] = "Function" -> EFn(<<>>, <<SExpr(EInt(1))>>)

\* place 1: {KEY: 2};   place 2: {1: 2}[KEY];   place 3: {}[KEY];
KeySource(kind, place) ==
    CASE place = 1 -> <<SExpr(EMap(<<<<KeyExpression(kind), EInt(2)>>>>))>>
      [] place = 2 ->
            <<SExpr(EIndex(EMap(<<<<EInt(1), EInt(2)>>>>), KeyExpression(kind)))>>
      [] place = 3 -> <<SExpr(EIndex(EMap(<<>>), KeyExpression(kind)))>>

\* == and != with a function operand:
\*   1: fn() { 1 } op 1;        2: 1 op fn() { 1 };
\*   3: let f = fn() { 1 }; f op f;
\*   4: fn() { 1 } op fn() { 1 };
\*   5: fn(g) { g op 1 }(fn() { 1 });
FunctionCompareSource(op, shape) ==
    LET one == EFn(<<>>, <<SExpr(EInt(1))>>)
        operator == InfixOperators[op]
    IN  CASE shape = 1 -> <<SExpr(EInfix(one, operator, EInt(1)))>>
          [] shape = 2 -> <<SExpr(EInfix(EInt(1), operator, one))>>
          [] shape = 3 ->
                <<SLet("f", one), SExpr(EInfix(EId("f"), operator, EId("f")))>>
          [] shape = 4 -> <<SExpr(EInfix(one, operator, one))>>
          [] shape = 5 ->
                <<SExpr(ECall(EFn(<<"g">>,
                                  <<SExpr(EInfix(EId("g"), operator, EInt(1)))>>),
                              <<one>>))>>

\* An if inside a function body, followed by another statement:
\*   fn() { if (c) { 1 }; 2 }();
IfInFunctionSource(c) ==
    <<SExpr(ECall(EFn(<<>>, <<SExpr(EIf(EBool(c = 1), <<SExpr(EInt(1))>>)),
                              SExpr(EInt(2))>>),
                  <<>>))>>

\* The integer literal i; a negative one is the prefix expression -|i|.
IntegerLiteral(i) == IF i < 0 THEN EPrefix("Neg", EInt(-i)) ELSE EInt(i)

\* [1, ..., n][i]
IndexSource(n, i) == <<SExpr(EIndex(Upto(n), IntegerLiteral(i)))>>

\* The values whose truthiness is tested: null, false, true, 0, 1, "", "a",
\* [], [0], {}, fn() { 1 }.
TruthyOperands ==
    <<ENull, EBool(FALSE), EBool(TRUE), EInt(0), EInt(1), EStr(""), EStr("a"),
      EArray(<<>>), EArray(<<EInt(0)>>), EMap(<<>>),
      EFn(<<>>, <<SExpr(EInt(1))>>)>>

\*   1: !v;      2: if (v) { 1 } else { 2 }
\*   3: fn() { if (v) { 1 } else { 2 } }();
TruthySource(v, place) ==
    LET test == EIfElse(TruthyOperands[v], <<SExpr(EInt(1))>>, <<SExpr(EInt(2))>>)
    IN  CASE place = 1 -> <<SExpr(EPrefix("Not", TruthyOperands[v]))>>
          [] place = 2 -> <<SExpr(test)>>
          [] place = 3 -> <<SExpr(ECall(EFn(<<>>, <<SExpr(test)>>), <<>>))>>

\* Two operands that both fail, each with an error of its own:
\*   1: a op b;                          (a and b are undefined)
\*   2: let f = fn() { a }; let g = fn() { b }; f() op g();
OrderSource(op, shape) ==
    IF shape = 1
      THEN <<SExpr(EInfix(EId("a"), InfixOperators[op], EId("b")))>>
      ELSE <<SLet("f", EFn(<<>>, <<SExpr(EId("a"))>>)),
             SLet("g", EFn(<<>>, <<SExpr(EId("b"))>>)),
             SExpr(EInfix(ECall(EId("f"), <<>>), InfixOperators[op],
                          ECall(EId("g"), <<>>)))>>

\* Statement lists in which a statement fails (a and b are undefined):
\*   1: a; b;                 2: a; let y = 1; y;        3: a; 1;
\*   4: let y = a; b;         5: a; return b;            6: a; return 1;
\*   7: if (true) { a; return 1; }
\*   8: fn() { a; b; }();
ErrorsSource(variant) ==
    LET a == SExpr(EId("a"))
        b == SExpr(EId("b"))
    IN  CASE variant = 1 -> <<a, b>>
          [] variant = 2 -> <<a, SLet("y", EInt(1)), SExpr(EId("y"))>>
          [] variant = 3 -> <<a, SExpr(EInt(1))>>
          [] variant = 4 -> <<SLet("y", EId("a")), b>>
          [] variant = 5 -> <<a, SReturn(EId("b"))>>
          [] variant = 6 -> <<a, SReturn(EInt(1))>>
          [] variant = 7 -> <<SExpr(EIf(EBool(TRUE), <<a, SReturn(EInt(1))>>))>>
          [] variant = 8 -> <<SExpr(ECall(EFn(<<>>, <<a, b>>), <<>>))>>

\* The names whose lookup fails when the statements of ErrorsSource run.
ErrorsProduced(variant) ==
    IF variant \in {1, 4, 5, 8} THEN <<"a", "b">> ELSE <<"a">>

\* Siblings that both fail (a and b are undefined):
\*   1: [a, b];      2: [a, 1, b];
\*   3: let f = fn(x, y) { 1 }; f(a, b);
\*   4: push(a, b);
SiblingsSource(variant) ==
    CASE variant = 1 -> <<SExpr(EArray(<<EId("a"), EId("b")>>))>>
      [] variant = 2 -> <<SExpr(EArray(<<EId("a"), EInt(1), EId("b")>>))>>
      [] variant = 3 ->
            <<SLet("f", EFn(<<"x", "y">>, <<SExpr(EInt(1))>>)),
              SExpr(ECall(EId("f"), <<EId("a"), EId("b")>>))>>
      [] variant = 4 -> <<SExpr(ECall(EId("push"), <<EId("a"), EId("b")>>))>>

\* How many values a call of the function of OverflowSource leaves on the
\* stack while the next call runs.
PendingPerCall == 16

\* A recursion without end, by self-application; every call leaves
\* PendingPerCall values on the stack before it calls again:
\*   let f = fn(g) { [g(g), 1, ..., 1] }; f(f);
OverflowSource ==
    <<SLet("f", EFn(<<"g">>,
                    <<SExpr(EArray(<<ECall(EId("g"), <<EId("g")>>)>>
                                   \o [i \in 1..PendingPerCall |-> EInt(1)]))>>)),
      SExpr(ECall(EId("f"), <<EId("f")>>))>>

\* The operands of every kind: 1, true, "x", null, [], fn() { 1 }.
KindOperands ==
    <<EInt(1), EBool(TRUE), EStr("x"), ENull, EArray(<<>>),
      EFn(<<>>, <<SExpr(EInt(1))>>)>>

\* l op r;
KindsSource(op, l, r) ==
    <<SExpr(EInfix(KindOperands[l], InfixOperators[op], KindOperands[r]))>>

\* A let inside a block or a call, and the name read afterwards outside:
\*   1: if (true) { let x = 2; } x;
\*   2: let x = 1; if (true) { let x = 2; } x;
\*   3: fn() { let x = 2; }(); x;
\*   4: let x = 1; fn() { let x = 2; }(); x;
\*   5: let x = 1; let f = fn() { let x = 2; x }; f() + x;
\*   6: if (false) { 0 } else { let x = 2; } x;
\*   7: let x = 1; if (true) { if (true) { let x = 2; } x };
\*   8: let f = fn() { if (true) { let x = 2; } x }; f();
ScopeSource(variant) ==
    LET letX(v) == SLet("x", EInt(v))
        x == SExpr(EId("x"))
        block == SExpr(EIf(EBool(TRUE), <<letX(2)>>))
        call == SExpr(ECall(EFn(<<>>, <<letX(2)>>), <<>>))
    IN  CASE variant = 1 -> <<block, x>>
          [] variant = 2 -> <<letX(1), block, x>>
          [] variant = 3 -> <<call, x>>
          [] variant = 4 -> <<letX(1), call, x>>
          [] variant = 5 ->
                <<letX(1), SLet("f", EFn(<<>>, <<letX(2), x>>)),
                  SExpr(EInfix(ECall(EId("f"), <<>>), "Add", EId("x")))>>
          [] variant = 6 ->
                <<SExpr(EIfElse(EBool(FALSE), <<SExpr(EInt(0))>>, <<letX(2)>>)), x>>
          [] variant = 7 ->
                <<letX(1), SExpr(EIf(EBool(TRUE), <<block, x>>))>>
          [] variant = 8 ->
                <<SLet("f", EFn(<<>>, <<block, x>>)), SExpr(ECall(EId("f"), <<>>))>>

ScopeVariants == 1..8

\* Programs and function bodies by the statement they end with:
\*   1: let a = 1;           2: (no statement)
\*   3: fn() { }();          4: fn() { let a = 1; return a; }();
\*   5: fn() { 1; let a = 2; }();
EndsSource(variant) ==
    LET letA(v) == SLet("a", EInt(v))
        call(body) == <<SExpr(ECall(EFn(<<>>, body), <<>>))>>
    IN  CASE variant = 1 -> <<letA(1)>>
          [] variant = 2 -> <<>>
          [] variant = 3 -> call(<<>>)
          [] variant = 4 -> call(<<letA(1), SReturn(EId("a"))>>)
          [] variant = 5 -> call(<<SExpr(EInt(1)), letA(2)>>)

EndsVariants == 1..5

\* Calls with a number of arguments other than the number of parameters:
\*   1: fn(x) { x }(1, 2);          2: fn(x, y) { x }(1);
\*   3: 5 + fn(x) { x }();          4: fn(x, y) { x }();
\*   5: [fn(x, y) { x - y }(9), 4];
AritySource(variant) ==
    LET x == SExpr(EId("x"))
        one == EFn(<<"x">>, <<x>>)
        two == EFn(<<"x", "y">>, <<x>>)
        sub == EFn(<<"x", "y">>, <<SExpr(EInfix(EId("x"), "Sub", EId("y")))>>)
    IN  CASE variant = 1 -> <<SExpr(ECall(one, <<EInt(1), EInt(2)>>))>>
          [] variant = 2 -> <<SExpr(ECall(two, <<EInt(1)>>))>>
          [] variant = 3 -> <<SExpr(EInfix(EInt(5), "Add", ECall(one, <<>>)))>>
          [] variant = 4 -> <<SExpr(ECall(two, <<>>))>>
          [] variant = 5 -> <<SExpr(EArray(<<ECall(sub, <<EInt(9)>>), EInt(4)>>))>>

\* The parameter count and the argument count of the call in AritySource.
ArityExpected == <<1, 2, 1, 2, 2>>
ArityGot == <<2, 1, 0, 0, 1>>

\* Calls with as many arguments as parameters:
\*   1: fn(x) { x }(1);             2: fn(x, y) { x - y }(7, 2);
\*   3: fn(a, b, c) { [a, b, c] }(1, 2, 3);
\*   4: 10 - fn(x, y) { x - y }(7, 2);
\*   5: fn(x, y) { x }(1, true) + 1;
BindsSource(variant) ==
    LET sub == EFn(<<"x", "y">>, <<SExpr(EInfix(EId("x"), "Sub", EId("y")))>>)
        call == ECall(sub, <<EInt(7), EInt(2)>>)
    IN  CASE variant = 1 -> <<SExpr(ECall(EFn(<<"x">>, <<SExpr(EId("x"))>>), <<EInt(1)>>))>>
          [] variant = 2 -> <<SExpr(call)>>
          [] variant = 3 ->
                <<SExpr(ECall(EFn(<<"a", "b", "c">>,
                                  <<SExpr(EArray(<<EId("a"), EId("b"), EId("c")>>))>>),
                              <<EInt(1), EInt(2), EInt(3)>>))>>
          [] variant = 4 -> <<SExpr(EInfix(EInt(10), "Sub", call))>>
          [] variant = 5 ->
                <<SExpr(EInfix(ECall(EFn(<<"x", "y">>, <<SExpr(EId("x"))>>),
                                     <<EInt(1), EBool(TRUE)>>),
                               "Add", EInt(1)))>>

\* An if inside a function body as an operand, after a value was pushed:
\*   1: fn() { 5 + if (true) { 1 } }();
\*   2: fn() { [if (false) { 1 } else { 2 }, 7] }();
OperandIfSource(variant) ==
    LET call(body) == <<SExpr(ECall(EFn(<<>>, <<SExpr(body)>>), <<>>))>>
    IN  CASE variant = 1 ->
                call(EInfix(EInt(5), "Add", EIf(EBool(TRUE), <<SExpr(EInt(1))>>)))
          [] variant = 2 ->
                call(EArray(<<EIfElse(EBool(FALSE), <<SExpr(EInt(1))>>,
                                      <<SExpr(EInt(2))>>),
                              EInt(7)>>))

\* A function and the lets around its literal and inside its body:
\*   1: let f = fn() { x }; let x = 5; f();
\*   2: let x = 1; let f = fn() { x }; let x = 2; f();
\*   3: let n = 0; let f = fn() { let r = n; let n = r + 1; r }; f(); f();
\*   4: let x = 1; let f = fn() { x }; let x = 2; f() + x;
\*   5: let f = fn(again) { if (again) { f(false) } else { 7 } }; f(true);
CaptureSource(variant) ==
    LET letX(v) == SLet("x", EInt(v))
        f == SLet("f", EFn(<<>>, <<SExpr(EId("x"))>>))
        call == ECall(EId("f"), <<>>)
    IN  CASE variant = 1 -> <<f, letX(5), SExpr(call)>>
          [] variant = 2 -> <<letX(1), f, letX(2), SExpr(call)>>
          [] variant = 3 ->
                <<SLet("n", EInt(0)),
                  SLet("f", EFn(<<>>,
                                <<SLet("r", EId("n")),
                                  SLet("n", EInfix(EId("r"), "Add", EInt(1))),
                                  SExpr(EId("r"))>>)),
                  SExpr(call), SExpr(call)>>
          [] variant = 4 ->
                <<letX(1), f, letX(2), SExpr(EInfix(call, "Add", EId("x")))>>
          [] variant = 5 ->
                <<SLet("f", EFn(<<"again">>,
                                <<SExpr(EIfElse(EId("again"),
                                                <<SExpr(ECall(EId("f"), <<EBool(FALSE)>>))>>,
                                                <<SExpr(EInt(7))>>))>>)),
                  SExpr(ECall(EId("f"), <<EBool(TRUE)>>))>>

CaptureVariants == 1..5

\* Other programs, one per syntactic form.
OtherSources ==
    << \* let x = 5; let y = 10; x + y;
       <<SLet("x", EInt(5)), SLet("y", EInt(10)),
         SExpr(EInfix(EId("x"), "Add", EId("y")))>>,
       \* "foo" + "bar"
       <<SExpr(EInfix(EStr("foo"), "Add", EStr("bar")))>>,
       \* "x" + 1
       <<SExpr(EInfix(EStr("x"), "Add", EInt(1)))>>,
       \* {"a": 1, "b": 2}["b"]
       <<SExpr(EIndex(EMap(<< <<EStr("a"), EInt(1)>>, <<EStr("b"), EInt(2)>> >>),
                      EStr("b")))>>,
       \* {"a": 1}["missing"]
       <<SExpr(EIndex(EMap(<< <<EStr("a"), EInt(1)>> >>), EStr("missing")))>>,
       \* [1, 2, 3][1]
       <<SExpr(EIndex(Upto(3), EInt(1)))>>,
       \* 1; -2
       <<SExpr(EInt(1)), SExpr(EPrefix("Neg", EInt(2)))>>,
       \* !null
       <<SExpr(EPrefix("Not", ENull))>>,
       \* -true
       <<SExpr(EPrefix("Neg", EBool(TRUE)))>>,
       \* let sub = fn(x, y) { x - y }; sub(7, 2);
       <<SLet("sub", EFn(<<"x", "y">>, <<SExpr(EInfix(EId("x"), "Sub", EId("y")))>>)),
         SExpr(ECall(EId("sub"), <<EInt(7), EInt(2)>>))>>,
       \* fn() { let a = 1; }();
       <<SExpr(ECall(EFn(<<>>, <<SLet("a", EInt(1))>>), <<>>))>>,
       \* let x = 5;
       <<SLet("x", EInt(5))>>,
       \* the empty program
       <<>>,
       \* undefined;
       <<SExpr(EId("undefined"))>>,
       \* 1(2);
       <<SExpr(ECall(EInt(1), <<EInt(2)>>))>> >>

ProgramIds ==
    Ids("infix", 1..Len(InfixOperators), {0, 1, 7}, {0, 2})
    \cup Ids("if", {1, 2, 3}, {0, 1}, {0, 1})
    \cup Ids("fib", {1, 3, 10}, {0}, {0})
    \cup Ids("adder", {5, 2}, {0, 3}, {0, 1})
    \cup Ids("enclosing", {1, 2, 3}, {0}, {0})
    \cup Ids("return", {1, 2, 3, 4}, {0}, {0})
    \cup Ids("intrinsic", 1..Len(IntrinsicOf), {0, 1, 3}, {0, 1})
    \cup Ids("key", 1..Len(KeyKinds), {1, 2, 3}, {0})
    \cup Ids("fncmp", {7, 8}, {1, 2, 3, 4, 5}, {0})
    \cup Ids("if_in_fn", {0, 1}, {0}, {0})
    \cup Ids("other", 1..Len(OtherSources), {0}, {0})
    \cup Ids("index", {0, 1, 3}, {-1, 0, 1, 2, 3}, {0})
    \cup Ids("truthy", 1..Len(TruthyOperands), {1, 2, 3}, {0})
    \cup Ids("order", {1, 5, 6}, {1, 2}, {0})
    \cup Ids("errors", 1..8, {0}, {0})
    \cup Ids("siblings", 1..4, {0}, {0})
    \cup Ids("overflow", {0}, {0}, {0})
    \cup Ids("kinds", 1..Len(InfixOperators), 1..Len(KindOperands),
             1..Len(KindOperands))
    \cup Ids("scope", ScopeVariants, {0}, {0})
    \cup Ids("ends", EndsVariants, {0}, {0})
    \cup Ids("arity", 1..Len(ArityExpected), {0}, {0})
    \cup Ids("binds", 1..5, {0}, {0})
    \cup Ids("operand_if", {1, 2}, {0}, {0})
    \cup Ids("capture", CaptureVariants, {0}, {0})

Source(id) ==
    CASE id[1] = "infix" -> InfixSource(id[2], id[3], id[4])
      [] id[1] = "if" -> IfSource(id[2], id[3], id[4])
      [] id[1] = "fib" -> FibSource(id[2])
      [] id[1] = "adder" -> MakeAdderSource(id[2], id[3], id[4])
      [] id[1] = "enclosing" -> EnclosingSource(id[2])
      [] id[1] = "return" -> ReturnSource(id[2])
      [] id[1] = "intrinsic" -> IntrinsicSource(id[2], id[3], id[4])
      [] id[1] = "key" -> KeySource(id[2], id[3])
      [] id[1] = "fncmp" -> FunctionCompareSource(id[2], id[3])
      [] id[1] = "if_in_fn" -> IfInFunctionSource(id[2])
      [] id[1] = "other" -> OtherSources[id[2]]
      [] id[1] = "index" -> IndexSource(id[2], id[3])
      [] id[1] = "truthy" -> TruthySource(id[2], id[3])
      [] id[1] = "order" -> OrderSource(id[2], id[3])
      [] id[1] = "errors" -> ErrorsSource(id[2])
      [] id[1] = "siblings" -> SiblingsSource(id[2])
      [] id[1] = "overflow" -> OverflowSource
      [] id[1] = "kinds" -> KindsSource(id[2], id[3], id[4])
      [] id[1] = "scope" -> ScopeSource(id[2])
      [] id[1] = "ends" -> EndsSource(id[2])
      [] id[1] = "arity" -> AritySource(id[2])
      [] id[1] = "binds" -> BindsSource(id[2])
      [] id[1] = "operand_if" -> OperandIfSource(id[2])
      [] id[1] = "capture" -> CaptureSource(id[2])

\* parser::parse of the program's text
Ast(id) == Parsed(Source(id))

\* How deep calls may nest in the tree-walker before the model gives up.
MaxCallDepth == 3

(***************************************************************************)
(* The state machine: main.rs parses a file and runs it on one back-end;   *)
(* here both back-ends run on the same tree.                               *)
(***************************************************************************)
\* No source text is being read.
LexerIdle ==
    /\ lexer = NewLexer(<<>>)
    /\ lexed = None
    /\ lexStatus = "idle"

ParserIdle ==
    /\ parser = NewParser(<<>>)
    /\ programStatements = <<>>
    /\ programErrors = <<>>
    /\ parseStatus = "idle"
    /\ parseResult = None

FrontIdle == LexerIdle /\ ParserIdle

Init ==
    /\ pid \in ProgramIds
    /\ program = None
    /\ twResult = None
    /\ stack = <<>>
    /\ frames = <<>>
    /\ constants = <<>>
    /\ vmStatus = "idle"
    /\ vmResult = None
    /\ FrontIdle

\* Backend::Otf: Environment::default().eval_program(program)
EvalProgram ==
    /\ twResult = None
    /\ twResult' = Some(eval_program(DefaultEnvironment, Ast(pid), MaxCallDepth))
    /\ UNCHANGED <<pid, program, stack, frames, constants, vmStatus, vmResult>>
    /\ UNCHANGED frontVars

\* Compiler::default().compile(program)
Compile ==
    /\ program = None
    /\ program' = Some(compile(DefaultCompiler, Ast(pid)))
    /\ UNCHANGED <<pid, twResult, stack, frames, constants, vmStatus, vmResult>>
    /\ UNCHANGED frontVars

\* VM::new(program)
NewVM ==
    /\ IsSome(program)
    /\ vmStatus = "idle"
    /\ stack' = <<>>
    /\ frames' = <<Frame(OCompiledFunction(program[1].ops, <<>>), DefaultSpan)>>
    /\ constants' = program[1].constants
    /\ vmStatus' = "running"
    /\ UNCHANGED <<pid, program, twResult, vmResult>>
    /\ UNCHANGED frontVars

\* The run loop is at an op of one of the given kinds.
At(kinds) == vmStatus = "running" /\ HasOp /\ CurrentOp.op \in kinds

Commit(out) ==
    /\ stack' = out.stack
    /\ frames' = out.frames
    /\ vmStatus' = out.status
    /\ vmResult' = out.result
    /\ UNCHANGED <<pid, program, twResult, constants>>
    /\ UNCHANGED frontVars

VMConstant == At({"Constant"}) /\ Commit(Advance(RunConstant(CurrentOp)))
VMPop == At({"Pop"}) /\ Commit(Advance(RunPop(CurrentOp)))
VMBinary ==
    /\ At({"Add", "Sub", "Mul", "Div", "Eq", "Neq", "GT"})
    /\ Commit(Advance(RunBinary(CurrentOp)))
VMLiteral == At({"True", "False", "Null"}) /\ Commit(Advance(RunLiteral(CurrentOp)))
VMNeg == At({"Neg"}) /\ Commit(Advance(RunNeg(CurrentOp)))
VMNot == At({"Not"}) /\ Commit(Advance(RunNot(CurrentOp)))
\* Op::JumpIfNot, Op::Jump and the placeholder Op::Panic
VMJump ==
    /\ At({"JumpIfNot", "Jump", "Panic"})
    /\ Commit(Advance(CASE CurrentOp.op = "JumpIfNot" -> RunJumpIfNot(CurrentOp)
                        [] CurrentOp.op = "Jump" -> RunJump(CurrentOp)
                        [] CurrentOp.op = "Panic" -> RunPanic(CurrentOp)))
VMBind == At({"Bind"}) /\ Commit(Advance(RunBind(CurrentOp)))
VMGet == At({"Get"}) /\ Commit(Advance(RunGet(CurrentOp)))
VMArray == At({"Array"}) /\ Commit(Advance(RunArray(CurrentOp)))
VMMap == At({"Map"}) /\ Commit(Advance(RunMap(CurrentOp)))
VMIndex == At({"Index"}) /\ Commit(Advance(RunIndex(CurrentOp)))
\* Op::Call ends with `continue`: the ip of the new frame stays 0.
VMCall == At({"Call"}) /\ Commit(RunCall(CurrentOp))
VMReturnValue == At({"ReturnValue"}) /\ Commit(Advance(RunReturnValue(CurrentOp)))
VMReturn == At({"Return"}) /\ Commit(Advance(RunReturn(CurrentOp)))

\* The while-let finds no op: run returns the top of the stack or Null.
VMHalt ==
    /\ vmStatus = "running"
    /\ ~HasOp
    /\ vmResult' = Some(RunResult)
    /\ stack' = IF Len(stack) = 0 THEN stack ELSE Below(stack, 1)
    /\ vmStatus' = "halted"
    /\ UNCHANGED <<pid, program, twResult, frames, constants>>
    /\ UNCHANGED frontVars

Next ==
    \/ EvalProgram
    \/ Compile
    \/ NewVM
    \/ VMConstant
    \/ VMPop
    \/ VMBinary
    \/ VMLiteral
    \/ VMNeg
    \/ VMNot
    \/ VMJump
    \/ VMBind
    \/ VMGet
    \/ VMArray
    \/ VMMap
    \/ VMIndex
    \/ VMCall
    \/ VMReturnValue
    \/ VMReturn
    \/ VMHalt

Spec == Init /\ [][Next]_vars

(***************************************************************************)
(* The lexer alone: Lexer::new on a source text, then calls of next.       *)
(***************************************************************************)
\* The characters of the source texts, and how long a text may be.
LexerAlphabet == {"\"", "i", "f", "1", " ", "=", "_", "@", "+"}

MaxSourceLen == 4

Sources == UNION {[1..n -> LexerAlphabet] : n \in 0..MaxSourceLen}

\* No program is being run.
BackIdle ==
    /\ program = None
    /\ twResult = None
    /\ stack = <<>>
    /\ frames = <<>>
    /\ constants = <<>>
    /\ vmStatus = "idle"
    /\ vmResult = None

LexerInit ==
    /\ pid = <<"other", 13, 0, 0>>
    /\ BackIdle
    /\ ParserIdle
    /\ lexer \in {NewLexer(s) : s \in Sources}
    /\ lexed = None
    /\ lexStatus = "ready"

\* One call of Lexer::next.
LexerNextCall ==
    /\ lexStatus \in {"ready", "end"}
    /\ LET r == LexerNext(lexer)
       IN  /\ lexer' = r.lexer
           /\ lexed' = r.token
           /\ lexStatus' = IF r.panic THEN "panic"
                           ELSE IF IsSome(r.token) THEN "ready" ELSE "end"
    /\ UNCHANGED <<backVars, parserVars>>

LexerSpec == LexerInit /\ [][LexerNextCall]_vars

(***************************************************************************)
(* The parser alone: parse(input) on source texts made of words.           *)
(***************************************************************************)
RECURSIVE Text(_)

\* The words joined by single spaces.
Text(words) ==
    IF Len(words) = 0 THEN <<>>
    ELSE IF Len(words) = 1 THEN words[1]
    ELSE words[1] \o <<" ">> \o Text(Tail(words))

\* The binary operators, lowest level of the ladder first, two to a level.
OperatorTexts ==
    << <<"=", "=">>, <<"!", "=">>, <<"<">>, <<">">>,
       <<"+">>, <<"-">>, <<"*">>, <<"/">> >>

OperatorNames == <<"Eq", "Neq", "LT", "GT", "Add", "Sub", "Mul", "Div">>

Operands == << <<"a">>, <<"b">>, <<"c">>, <<"d">> >>

RECURSIVE ChainWords(_, _)

\* a op1 b op2 c ...: the operands from the i-th on, joined by the operators ops.
ChainWords(ops, i) ==
    IF i > Len(ops) THEN <<Operands[i]>>
    ELSE <<Operands[i], OperatorTexts[ops[i]]>> \o ChainWords(ops, i + 1)

\* The operators of a chain: the non-zero components of its id.
ChainOps(id) == SelectSeq(<<id[2], id[3], id[4]>>, LAMBDA op : op # 0)

\* Expressions with prefix operators and calls around the operator op.
NestingWords(shape, op) ==
    LET o == OperatorTexts[op]
    IN  CASE shape = 1 -> << <<"-">>, <<"a">>, o, <<"b">> >>
          [] shape = 2 -> << <<"a">>, o, <<"-">>, <<"b">> >>
          [] shape = 3 -> << <<"!">>, <<"-">>, <<"a">>, o, <<"b">> >>
          [] shape = 4 -> << <<"-">>, <<"f">>, <<"(">>, <<"a">>, <<")">>, o, <<"b">> >>
          [] shape = 5 -> << <<"a">>, o, <<"f">>, <<"(">>, <<"b">>, <<")">> >>
          [] shape = 6 -> << <<"!">>, <<"f">>, <<"(">>, <<"a">>, o, <<"b">>, <<",">>,
                             <<"c">>, <<")">> >>
          [] shape = 7 -> << <<"a">>, o, <<"!">>, <<"f">>, <<"(">>, <<"b">>, <<")">>,
                             <<"(">>, <<"c">>, <<")">> >>

NestingShapes == 1..7

\* The statements the texts of several statements are made of: the first
\* three are well formed; of the others, the second and the fourth fail
\* before their semicolon is read, the first and the third at it.
StatementWords ==
    << << <<"a">> >>,
       << <<"l", "e", "t">>, <<"x">>, <<"=">>, <<"1">> >>,
       << <<"r", "e", "t", "u", "r", "n">>, <<"b">>, <<"+">>, <<"c">> >>,
       << <<"l", "e", "t">>, <<"x">> >>,
       << <<"l", "e", "t">>, <<"=">>, <<"5">> >>,
       << <<"1">>, <<"+">> >>,
       << <<")">>, <<"a">> >> >>

\* The statements of a text: the non-zero components of its id.
StatementsOf(id) == SelectSeq(<<id[2], id[3], id[4]>>, LAMBDA s : s # 0)

RECURSIVE StatementsWords(_, _, _)

\* The statements from the i-th on, a semicolon after each but the last,
\* which has one iff closed.
StatementsWords(list, i, closed) ==
    IF i > Len(list) THEN <<>>
    ELSE StatementWords[list[i]]
         \o (IF i < Len(list) \/ closed THEN << <<";">> >> ELSE <<>>)
         \o StatementsWords(list, i + 1, closed)

ParserIds ==
    LET statement == 1..Len(StatementWords)
        operator == 1..Len(OperatorTexts)
    IN  Ids("chain", operator, {0}, {0})
          \cup Ids("chain", operator, operator, {0})
          \cup Ids("chain", operator, operator, operator)
          \cup Ids("nesting", NestingShapes, operator, {0})
          \cup Ids("closed", statement, {0}, {0})
          \cup Ids("closed", statement, statement, {0})
          \cup Ids("closed", statement, statement, statement)
          \cup Ids("open", statement, {0}, {0})
          \cup Ids("open", statement, statement, {0})
          \cup Ids("string", {0}, {0}, {0})

ParserSource(id) ==
    CASE id[1] = "chain" -> Text(ChainWords(ChainOps(id), 1))
      [] id[1] = "nesting" -> Text(NestingWords(id[2], id[3]))
      [] id[1] = "closed" -> Text(StatementsWords(StatementsOf(id), 1, TRUE))
      [] id[1] = "open" -> Text(StatementsWords(StatementsOf(id), 1, FALSE))
      [] id[1] = "string" -> <<"a", ";", "\"">>

\* Parser::new(input), at the head of parse_program
ParserInit ==
    /\ pid \in ParserIds
    /\ BackIdle
    /\ LexerIdle
    /\ parser = NewParser(ParserSource(pid))
    /\ programStatements = <<>>
    /\ programErrors = <<>>
    /\ parseStatus = IF NewParser(ParserSource(pid)).panic THEN "panic" ELSE "parsing"
    /\ parseResult = None

\* One pass of the while loop of parse_program: a statement, the recovery
\* from its error, and the next_token after either.
ParseStatementStep ==
    /\ parseStatus = "parsing"
    /\ IsSome(parser.current)
    /\ \E out \in {parse_statement(parser)} :
       \E after \in {next_token(IF IsOk(out.r) THEN out.p
                                 ELSE SkipToSemicolon(out.p))} :
           /\ programStatements' = IF IsOk(out.r)
                                     THEN Append(programStatements, out.r.v)
                                     ELSE programStatements
           /\ programErrors' = IF IsOk(out.r) THEN programErrors
                               ELSE programErrors \o out.r.errors
           /\ parser' = after
           /\ parseStatus' = IF after.panic THEN "panic" ELSE "parsing"
    /\ UNCHANGED <<backVars, lexerVars, parseResult>>

\* The end of parse_program, once the loop is left.
ParseProgramEnd ==
    /\ parseStatus = "parsing"
    /\ ~IsSome(parser.current)
    /\ parseResult' = Some(IF programErrors = <<>> THEN Ok(programStatements)
                           ELSE Err(programErrors))
    /\ parseStatus' = "done"
    /\ UNCHANGED <<backVars, lexerVars, parser, programStatements, programErrors>>

ParserNext == ParseStatementStep \/ ParseProgramEnd

ParserSpec == ParserInit /\ [][ParserNext]_vars

(***************************************************************************)
(* Properties.                                                             *)
(***************************************************************************)
\* The tree-walker has returned (a run cut off at MaxCallDepth has not).
TwDone == IsSome(twResult) /\ twResult[1].t # "Deep"

\* VM::run has returned or panicked.
VMDone == IsSome(vmResult)

TwValue == twResult[1]

VmValue == vmResult[1]

ReturnsInteger(r, n) == r.t = "Ok" /\ r.v.k = "Integer" /\ r.v.v = n

FailsWith(r, kind) ==
    r.t = "Err" /\ \E i \in 1..Len(r.errors) : r.errors[i].kind = kind

Returns(r, object) == r.t = "Ok" /\ ObjectEq(r.v, object) = "true"

IsFunctionValue(o) == o.k \in {"Function", "CompiledFunction"}

\* C1: for every program whose result is not a function value, if the
\* tree-walker and the VM both return Ok, the two returned values are equal.
C1_BackendsAgree ==
    (/\ TwDone /\ VMDone
     /\ TwValue.t = "Ok" /\ VmValue.t = "Ok"
     /\ ~IsFunctionValue(TwValue.v) /\ ~IsFunctionValue(VmValue.v))
    => ObjectEq(TwValue.v, VmValue.v) = "true"

\* C1: fn() { if (true) { 1 }; 2 }() is 2 on the tree-walker and 1 on the VM.
C1_Divergence ==
    /\ pid = <<"if_in_fn", 1, 0, 0>>
    /\ TwDone /\ VMDone
    /\ ReturnsInteger(TwValue, 2)
    /\ ReturnsInteger(VmValue, 1)

\* C2: for every program built from (nested) if/else expressions with
\* integer constants as branches, the VM completes and returns the integer
\* the tree-walker returns.
C2_IfElseChains ==
    (pid[1] = "if" /\ TwDone /\ VMDone)
    => /\ TwValue.t = "Ok" /\ TwValue.v.k = "Integer"
       /\ vmStatus = "halted"
       /\ ReturnsInteger(VmValue, TwValue.v.v)

\* C2: if (true) { 1 } else { 2 } is 1 on the tree-walker; VM::run panics.
C2_RootFrameGone ==
    /\ pid = <<"if", 1, 1, 0>>
    /\ TwDone
    /\ ReturnsInteger(TwValue, 1)
    /\ vmStatus = "panic"
    /\ Len(frames) = 0

\* C3: a function bound by let can call itself by its let-name on both
\* back-ends: fib(10) is Integer(55) on the tree-walker and on the VM.
C3_RecursionByLetName ==
    pid = <<"fib", 10, 0, 0>>
    => /\ TwDone => ReturnsInteger(TwValue, 55)
       /\ VMDone => ReturnsInteger(VmValue, 55)

\* C3: on the VM fib(10) ends in UndefinedVariable(fib).
C3_FibUndefined ==
    /\ pid = <<"fib", 10, 0, 0>>
    /\ VMDone
    /\ FailsWith(VmValue, "UndefinedVariable")

\* C4: under the tree-walker a function literal evaluated inside a call
\* captures the call's parameter bindings: after let add5 = make(m), every
\* later call add5(k) returns m + k, also after make has returned.
C4_ClosureCapture ==
    (pid[1] = "adder" /\ TwDone) => ReturnsInteger(TwValue, pid[2] + pid[3])

\* C4: add5(0) and then add5(3) have been called on the tree-walker.
C4_Witness ==
    /\ pid = <<"adder", 5, 3, 1>>
    /\ TwDone
    /\ ReturnsInteger(TwValue, 8)

\* C5: on the VM the body of a compiled function reads variables bound in
\* lexically enclosing scopes: Get for such a name pushes the binding's
\* value and does not fail with UndefinedVariable.
C5_EnclosingScopeOnVM ==
    (pid[1] = "enclosing" /\ VMDone)
    => /\ ~FailsWith(VmValue, "UndefinedVariable")
       /\ ReturnsInteger(VmValue, 5)

\* C5: let x = 5; let f = fn() { x }; f(); ends in UndefinedVariable(x) on
\* the VM, in the frame of f.
C5_GetFails ==
    /\ pid = <<"enclosing", 1, 0, 0>>
    /\ VMDone
    /\ FailsWith(VmValue, "UndefinedVariable")
    /\ Len(frames) = 2

\* C6: under the tree-walker, return e at any nesting depth of if-blocks
\* ends the whole function call (or the program) with the value of e: every
\* one of the return programs yields 10.
C6_ReturnEndsTheCall ==
    (pid[1] = "return" /\ TwDone) => ReturnsInteger(TwValue, 10)

\* C6: if (10 > 1) { if (10 > 1) { return 10; } return 1; } yields 1 on the
\* tree-walker.
C6_OuterStatementRuns ==
    /\ pid = <<"return", 1, 0, 0>>
    /\ TwDone
    /\ ReturnsInteger(TwValue, 1)

\* The array [1, ..., n] as a value
IntegerArray(n) == OArray([i \in 1..n |-> OInteger(i)])

\* What f is to return for the array [1, ..., n] (and 4, for push).
ExpectedOfIntrinsic(f, n) ==
    CASE IntrinsicOf[f] = "push" ->
            OArray([i \in 1..(n + 1) |-> OInteger(IF i <= n THEN i ELSE 4)])
      [] IntrinsicOf[f] = "first" -> IF n = 0 THEN ONull ELSE OInteger(1)
      [] IntrinsicOf[f] = "last" -> IF n = 0 THEN ONull ELSE OInteger(n)
      [] IntrinsicOf[f] = "rest" ->
            OArray([i \in 1..(IF n = 0 THEN 0 ELSE n - 1) |-> OInteger(i + 1)])
      [] IntrinsicOf[f] = "len" -> OInteger(n)

C8_DivisionByZero ==
    (pid[1] = "infix" /\ InfixOperators[pid[2]] = "Div" /\ pid[4] = 0)
    => /\ TwDone => FailsWith(TwValue, "DivisionByZero")
       /\ VMDone => FailsWith(VmValue, "DivisionByZero")

\* C8: 7 / 0 panics in the tree-walker.
C8_TreeWalkerPanics ==
    /\ pid = <<"infix", 4, 7, 0>>
    /\ TwDone
    /\ TwValue.t = "Panic"

\* C9: an array, a map or a function used as a map key, in a map literal
\* or as the index into a map, is the runtime error InvalidKey on both
\* back-ends.
C9_InvalidKeys ==
    (pid[1] = "key" /\ KeyKinds[pid[2]] \in {"Array", "Map", "Function"})
    => /\ TwDone => FailsWith(TwValue, "InvalidKey")
       /\ VMDone => FailsWith(VmValue, "InvalidKey")

\* C9: {[1]: 2} is a map on both back-ends.
C9_ArrayKeyAccepted ==
    /\ pid = <<"key", 4, 1, 0>>
    /\ TwDone /\ VMDone
    /\ TwValue.t = "Ok" /\ TwValue.v.k = "Map"
    /\ VmValue.t = "Ok" /\ VmValue.v.k = "Map"

\* C10: == and != with a function value as either operand (a function
\* compared with itself included) yield an error, never a Boolean, on the
\* tree-walker and on the VM.
C10_FunctionEquality ==
    pid[1] = "fncmp"
    => /\ TwDone => FailsWith(TwValue, "InvalidOperands")
       /\ VMDone => FailsWith(VmValue, "InvalidOperands")

\* C10: let f = fn() { 1 }; f == f; has run on both back-ends.
C10_Witness ==
    /\ pid = <<"fncmp", 7, 3, 0>>
    /\ TwDone /\ VMDone
    /\ FailsWith(TwValue, "InvalidOperands")
    /\ FailsWith(VmValue, "InvalidOperands")

\* The result r is exactly what indexing [1, ..., n] with i is to give.
IndexOutcome(r, n, i) ==
    IF 0 <= i /\ i < n THEN ReturnsInteger(r, i + 1)
    ELSE r = Err(<<OutOfBounds(i, n)>>)

NullOrFalse(o) == o.k = "Null" \/ (o.k = "Boolean" /\ o.v = FALSE)

\* The operand v of the program, as a literal: falsy are null and false.
FalsyOperand(v) == TruthyOperands[v].e = "Null"
                   \/ (TruthyOperands[v].e = "Boolean" /\ TruthyOperands[v].value = FALSE)

\* !v is true iff v is null or false; if (v) runs its alternative iff v is
\* null or false.
TruthyOutcome(r, v, place) ==
    IF place = 1 THEN Returns(r, OBoolean(FalsyOperand(v)))
    ELSE ReturnsInteger(r, IF FalsyOperand(v) THEN 2 ELSE 1)

\* A pass of the run loop at a JumpIfNot sets ip to the target iff the value
\* it pops is Null or false.
JumpIfNotStep ==
    (At({"JumpIfNot"}) /\ Len(stack) > 0 /\ frames' # frames)
    => /\ Len(frames') = Len(frames)
       /\ (frames'[Len(frames')].ip = CurrentOp.target)
            <=> NullOrFalse(Top(stack).object)

\* C12: exactly Null and Boolean(false) are falsy wherever a value is
\* tested: !v is true iff v is Null or false (both back-ends), if (v) skips
\* its consequence iff v is Null or false, and the VM's JumpIfNot jumps iff
\* the popped value is Null or false; 0, "" and [] are truthy.
C12_Truthiness ==
    /\ [](pid[1] = "truthy"
          => /\ TwDone => TruthyOutcome(TwValue, pid[2], pid[3])
             /\ (VMDone /\ pid[3] # 2) => TruthyOutcome(VmValue, pid[2], pid[3]))
    /\ [][JumpIfNotStep]_vars

\* C12: fn() { if (0) { 1 } else { 2 } }() has returned 1 on both back-ends.
C12_Witness ==
    /\ pid = <<"truthy", 4, 3, 0>>
    /\ TwDone /\ VMDone
    /\ ReturnsInteger(TwValue, 1)
    /\ ReturnsInteger(VmValue, 1)

\* The run failed with the one error of the left operand.
LeftOperandFailed(r) == r = Err(<<UndefinedVariable("a")>>)

\* C13: for a < b on the VM the operand a is evaluated completely before b,
\* as in the tree-walker: a call made by a runs before a call made by b, and
\* when both operands fail the error reported is a's.
C13_LeftOperandFirst ==
    (pid[1] = "order" /\ InfixOperators[pid[2]] = "LT")
    => /\ TwDone => LeftOperandFailed(TwValue)
       /\ VMDone => LeftOperandFailed(VmValue)

\* C13: for a < b with both names undefined the tree-walker reports a and
\* the VM reports b.
C13_RightOperandFirst ==
    /\ pid = <<"order", 5, 1, 0>>
    /\ TwDone /\ VMDone
    /\ LeftOperandFailed(TwValue)
    /\ VmValue = Err(<<UndefinedVariable("b")>>)

\* One UndefinedVariable error per name, in order.
UndefinedVariables(names) ==
    [i \in 1..Len(names) |-> UndefinedVariable(names[i])]

\* C14: a statement list (program or block) evaluated by the tree-walker in
\* which an executed statement produced an error returns Err with every
\* error produced, whatever kind of statement (let, expression, return)
\* comes after the failing one; Ok is returned only when no statement failed.
C14_StatementErrorsKept ==
    (pid[1] = "errors" /\ TwDone)
    => TwValue = Err(UndefinedVariables(ErrorsProduced(pid[2])))

\* C14: a; return 1; returns Ok(1) although a failed.
C14_ReturnDropsErrors ==
    /\ pid = <<"errors", 6, 0, 0>>
    /\ TwDone
    /\ ReturnsInteger(TwValue, 1)

\* C15: when several elements of one array literal, or several arguments of
\* one call, each fail to evaluate, the error list the tree-walker returns
\* has an error for every failing sibling, not only for the first.
C15_SiblingErrorsKept ==
    (pid[1] = "siblings" /\ TwDone)
    => TwValue = Err(UndefinedVariables(<<"a", "b">>))

\* C15: [a, b] fails with the error of a alone.
C15_FirstErrorOnly ==
    /\ pid = <<"siblings", 1, 0, 0>>
    /\ TwDone
    /\ TwValue = Err(UndefinedVariables(<<"a">>))

\* A pass of the run loop at an op that pushes a value and pops none, with
\* the stack at its capacity, ends the run with an error.
PushOnFullStackStep ==
    (/\ At({"Constant", "True", "False", "Null", "Get"})
     /\ Len(stack) = StackSize
     /\ vmStatus' # vmStatus)
    => vmStatus' = "error"

\* C16: when the value stack of the VM holds its full capacity of 2048
\* values, an op that pushes a value makes run() return an error; the VM
\* never crashes and never writes outside the storage of the stack.
C16_FullStackIsAnError ==
    /\ [](Len(stack) <= StackSize)
    /\ [][PushOnFullStackStep]_vars

\* C16: the push of a Constant on the full stack has panicked.
C16_PushPanics ==
    /\ pid[1] = "overflow"
    /\ Len(stack) = StackSize
    /\ vmStatus = "panic"
    /\ VmValue = Panic("index out of bounds")

\* The VM exists: VM::new has run.
VMConstructed == vmStatus # "idle"

\* The frame stack is never empty.
RootFrameKept == VMConstructed => Len(frames) >= 1

\* run has returned Ok only with the root frame alone on the frame stack and
\* its ip past the last op.
HaltedAtEndOfRoot ==
    vmStatus = "halted"
    => /\ Len(frames) = 1
       /\ frames[1].ip >= Len(frames[1].function.ops)
       /\ VmValue.t = "Ok"

\* A pass of the run loop at Return or ReturnValue runs in a frame above the
\* root frame.
ReturnStep ==
    (At({"Return", "ReturnValue"}) /\ frames' # frames) => Len(frames) > 1

\* The step in which run returns Ok hands out the top of the stack, or Null
\* when the stack is empty.
HaltStep ==
    (vmStatus = "running" /\ vmStatus' = "halted")
    => vmResult' = Some(Ok(IF Len(stack) = 0 THEN ONull ELSE Top(stack).object))

\* C17: VM::run leaves the running state without error only when the ip of
\* the root frame is past the last op of the root op stream, and returns the
\* top of the value stack, or Null for an empty stack; the root frame is
\* never popped: Return and ReturnValue execute in non-root frames only and
\* the frame stack is non-empty in every reachable state.
C17_RootFrameNeverPopped ==
    /\ [](RootFrameKept /\ HaltedAtEndOfRoot)
    /\ [][ReturnStep /\ HaltStep]_vars

\* C17: if (true) { if (true) { 1 } else { 2 } } else { 3 } at the top level:
\* ReturnValue has popped the root frame and run has panicked.
C17_RootFramePopped ==
    /\ pid = <<"if", 2, 1, 1>>
    /\ VMConstructed
    /\ Len(frames) = 0
    /\ VmValue.t = "Panic"

\* s[start..end], where that is a slice of s
Slice(s, start, end) == SubSeq(s, start + 1, end)

\* The token's span lies in the input and its literal is the span's slice,
\* for a string token without the first and the last character.
TokenFootprint(t, s) ==
    /\ t.span.start <= t.span.end
    /\ t.span.end <= Len(s)
    /\ IF t.kind = "String"
         THEN /\ t.span.start + 1 <= t.span.end - 1
              /\ t.literal = Slice(s, t.span.start + 1, t.span.end - 1)
         ELSE t.literal = Slice(s, t.span.start, t.span.end)

\* C18: for every source s every call of the lexer's next returns a token
\* or the end of input without failing; a token's span has
\* start <= end <= len(s), its literal is s[start..end], and for a string
\* token that slice without the opening and the closing quote.
C18_TokenFootprint ==
    /\ lexStatus # "panic"
    /\ IsSome(lexed) => TokenFootprint(lexed[1], lexer.input)

\* C18: next has panicked on a source that ends with an opening quote.
C18_NextPanics ==
    /\ lexStatus = "panic"
    /\ lexer.input = <<"\"">>

\* The level of a binary operator on the ladder Equal < Cmp < Sum < Product.
LadderLevel(op) == (op + 1) \div 2

RECURSIVE Grouped(_, _, _)

\* The grouping of the operands lo..hi of a chain: it splits at the operator
\* of the lowest level, at the rightmost such one.
Grouped(ops, lo, hi) ==
    IF lo = hi THEN EId(Operands[lo])
    ELSE LET split == CHOOSE k \in lo..(hi - 1) : \A j \in lo..(hi - 1) :
                          \/ LadderLevel(ops[k]) < LadderLevel(ops[j])
                          \/ LadderLevel(ops[k]) = LadderLevel(ops[j]) /\ j <= k
         IN  EInfix(Grouped(ops, lo, split), OperatorNames[ops[split]],
                    Grouped(ops, split + 1, hi))

\* The grouping of the expressions with prefix operators and calls.
NestingGrouped(shape, op) ==
    LET a == EId(<<"a">>)
        b == EId(<<"b">>)
        c == EId(<<"c">>)
        f == EId(<<"f">>)
        o == OperatorNames[op]
    IN  CASE shape = 1 -> EInfix(EPrefix("Neg", a), o, b)
          [] shape = 2 -> EInfix(a, o, EPrefix("Neg", b))
          [] shape = 3 -> EInfix(EPrefix("Not", EPrefix("Neg", a)), o, b)
          [] shape = 4 -> EInfix(EPrefix("Neg", ECall(f, <<a>>)), o, b)
          [] shape = 5 -> EInfix(a, o, ECall(f, <<b>>))
          [] shape = 6 -> EPrefix("Not", ECall(f, <<EInfix(a, o, b), c>>))
          [] shape = 7 -> EInfix(a, o, EPrefix("Not", ECall(ECall(f, <<b>>), <<c>>)))

\* C19: an expression of operands joined by binary operators parses into
\* the grouping of the precedence ladder, the operators of one level
\* associating to the left, a prefix operator binding tighter than every
\* binary operator and a call tighter than a prefix operator.
C19_PrecedenceLadder ==
    parseStatus = "done" /\ pid[1] \in {"chain", "nesting"} =>
        parseResult =
            Some(Ok(<<SExpr(IF pid[1] = "chain"
                              THEN Grouped(ChainOps(pid), 1, Len(ChainOps(pid)) + 1)
                              ELSE NestingGrouped(pid[2], pid[3]))>>))

\* a - b * c - d has been parsed as ((a - (b * c)) - d).
C19_Witness ==
    /\ pid = <<"chain", 6, 7, 6>>
    /\ parseStatus = "done"
    /\ parseResult =
         Some(Ok(<<SExpr(EInfix(EInfix(EId(<<"a">>), "Sub",
                                       EInfix(EId(<<"b">>), "Mul", EId(<<"c">>))),
                                "Sub", EId(<<"d">>)))>>))

\* The trees of the well-formed statements, and which statements are not.
StatementTrees ==
    <<SExpr(EId(<<"a">>)),
      SLet(<<"x">>, EInt(1)),
      SReturn(EInfix(EId(<<"b">>), "Add", EId(<<"c">>)))>>

WellFormed(s) == s <= Len(StatementTrees)

RECURSIVE TreesOf(_)

TreesOf(list) ==
    IF list = <<>> THEN <<>>
    ELSE (IF WellFormed(Head(list)) THEN <<StatementTrees[Head(list)]>> ELSE <<>>)
         \o TreesOf(Tail(list))

\* C20: of a text of several statements, every malformed statement has
\* contributed an error, every well-formed statement has been parsed, and
\* parse has returned Ok(program) iff no error was recorded.
C20_RecoveryKeepsLaterStatements ==
    parseStatus = "done" /\ pid[1] \in {"closed", "open"} =>
        /\ Len(programErrors) =
             Len(SelectSeq(StatementsOf(pid), LAMBDA s : ~WellFormed(s)))
        /\ programStatements = TreesOf(StatementsOf(pid))
        /\ parseResult = Some(IF programErrors = <<>> THEN Ok(programStatements)
                              ELSE Err(programErrors))

\* let x ; a ; a ; has been parsed into one error and one statement: the
\* recovery from the error raised at the semicolon has discarded the first a.
C20_StatementSwallowed ==
    /\ pid = <<"closed", 4, 1, 1>>
    /\ parseStatus = "done"
    /\ Len(programErrors) = 1
    /\ programStatements = <<SExpr(EId(<<"a">>))>>

\* The kinds of the operands of every kind, as a back-end names them.
KindNames(functionKind) ==
    <<"Integer", "Boolean", "String", "Null", "Array", functionKind>>

\* The operand kinds an operator is defined for: integers for every
\* operator, strings for +, and for == and != everything but functions.
InTable(operator, l, r) ==
    \/ l = 1 /\ r = 1
    \/ operator = "Add" /\ l = 3 /\ r = 3
    \/ operator \in {"Eq", "Neq"} /\ l # Len(KindOperands) /\ r # Len(KindOperands)

\* The run failed with the one error InvalidOperands{operator, left, right}.
InvalidOperandsOutcome(r, operator, left, right) ==
    r = Err(<<[kind |-> "InvalidOperands", operator |-> operator,
               left |-> left, right |-> right]>>)

\* C21: an infix operator applied to operand kinds outside its table gives
\* InvalidOperands on both back-ends, with the operator of the source, the
\* kind of the source-left operand as left and the kind of the source-right
\* operand as right.
C21_InvalidOperandsAsWritten ==
    (pid[1] = "kinds" /\ ~InTable(InfixOperators[pid[2]], pid[3], pid[4]))
    => /\ TwDone => InvalidOperandsOutcome(TwValue, InfixOperators[pid[2]],
                                           KindNames("Function")[pid[3]],
                                           KindNames("Function")[pid[4]])
       /\ VMDone => InvalidOperandsOutcome(VmValue, InfixOperators[pid[2]],
                                           KindNames("CompiledFunction")[pid[3]],
                                           KindNames("CompiledFunction")[pid[4]])

\* C21: for 1 < true the tree-walker reports {<, Integer, Boolean} and the
\* VM, which has the operands of < swapped, {<, Boolean, Integer}.
C21_OperandKindsSwapped ==
    /\ pid = <<"kinds", 5, 1, 2>>
    /\ TwDone /\ VMDone
    /\ InvalidOperandsOutcome(TwValue, "LT", "Integer", "Boolean")
    /\ InvalidOperandsOutcome(VmValue, "LT", "Boolean", "Integer")

\* What reading x outside the block or call gives: the enclosing
\* environment's own binding of x where it has one, 1, and otherwise
\* UndefinedVariable; in variant 5 the sum of the body's 2 and the 1 outside.
ScopeOutcome(variant) ==
    CASE variant \in {2, 4, 7} -> Ok(OInteger(1))
      [] variant = 5 -> Ok(OInteger(3))
      [] OTHER -> Err(<<UndefinedVariable("x")>>)

\* C22: under the tree-walker a let inside a block or inside a call is not
\* visible in the enclosing environment: the name read there afterwards has
\* the enclosing environment's previous binding, or is undefined.
C22_LetStaysInItsScope ==
    (pid[1] = "scope" /\ TwDone) => TwValue = ScopeOutcome(pid[2])

\* let x = 1; let f = fn() { let x = 2; x }; f() + x; has returned 3.
C22_Witness ==
    /\ pid = <<"scope", 5, 0, 0>>
    /\ TwDone
    /\ TwValue = Ok(OInteger(3))

(***************************************************************************)
(* The layout of a compiled program, computed from the tree: where in its  *)
(* op stream an expression starts and ends.  A walk goes through the tree  *)
(* in the order of the emitted ops and checks, at every if, the two jumps  *)
(* and, at every function literal, the last op of the body's stream.       *)
(***************************************************************************)
\* ops[k], counted from 0, or no op outside the stream.
OpAt(ops, k) == IF k >= 0 /\ k < Len(ops) THEN ops[k + 1] ELSE [op |-> "None"]

\* Where a walk stands, and whether the ifs and the function bodies met so
\* far were laid out as stated.
Walked(at, ifs, fns) == [at |-> at, ifs |-> ifs, fns |-> fns]

\* One more op after w.
Plus(w) == Walked(w.at + 1, w.ifs, w.fns)

\* The walk w continued by the walk F starts where w stands.
After(w, F(_)) ==
    Then(w, LAMBDA a :
      Then(F(a.at), LAMBDA b : Walked(b.at, a.ifs /\ b.ifs, a.fns /\ b.fns)))

\* The statements that are compiled: those up to the first return.
Compiled(statements) ==
    IF \E i \in 1..Len(statements) : statements[i].s = "Return"
      THEN SubSeq(statements, 1,
                  CHOOSE i \in 1..Len(statements) :
                      /\ statements[i].s = "Return"
                      /\ \A j \in 1..(i - 1) : statements[j].s # "Return")
      ELSE statements

\* The op a list of statements ends with: ReturnValue after an expression
\* statement, Return otherwise.
LastOpAsClaimed(statements) ==
    IF Len(Compiled(statements)) > 0
       /\ Compiled(statements)[Len(Compiled(statements))].s = "Expression"
      THEN OpReturnValue ELSE OpReturn

\* The same, with ReturnValue after a return statement as well.
LastOpAmended(statements) ==
    IF Len(Compiled(statements)) > 0
       /\ Compiled(statements)[Len(Compiled(statements))].s \in {"Expression", "Return"}
      THEN OpReturnValue ELSE OpReturn

RECURSIVE WalkExpression(_, _, _, _, _), WalkList(_, _, _, _, _, _),
          WalkEntries(_, _, _, _, _, _), WalkStatements(_, _, _, _, _),
          WalkLoop(_, _, _, _, _, _)

\* The expressions xs[i], xs[i + step], ... from at on.
WalkList(xs, i, step, ops, at, q) ==
    IF i < 1 \/ i > Len(xs) THEN Walked(at, TRUE, TRUE)
    ELSE After(WalkExpression(xs[i], ops, at, q.pool, q.amended),
               LAMBDA next : WalkList(xs, i + step, step, ops, next, q))

\* The entries of a map literal, last first, the value before the key.
WalkEntries(es, i, ops, at, pool, amended) ==
    IF i < 1 THEN Walked(at, TRUE, TRUE)
    ELSE After(After(WalkExpression(es[i][2], ops, at, pool, amended),
                     LAMBDA a : WalkExpression(es[i][1], ops, a, pool, amended)),
               LAMBDA next : WalkEntries(es, i - 1, ops, next, pool, amended))

\* The statements of a block or body from at on, with the op they end in.
WalkStatements(statements, ops, at, pool, amended) ==
    LET list == Compiled(statements)
        popped == IF Len(list) > 0 /\ list[Len(list)].s = "Expression" THEN 1 ELSE 0
    IN  Then(WalkLoop(list, 1, ops, at, pool, amended),
             LAMBDA w : Walked(w.at - popped + 1, w.ifs, w.fns))

WalkLoop(list, i, ops, at, pool, amended) ==
    IF i > Len(list) THEN Walked(at, TRUE, TRUE)
    ELSE After(Then(WalkExpression(IF list[i].s = "Expression" THEN list[i].expr
                                   ELSE list[i].value,
                                   ops, at, pool, amended),
                    LAMBDA w : IF list[i].s = "Return" THEN w ELSE Plus(w)),
               LAMBDA next : WalkLoop(list, i + 1, ops, next, pool, amended))

\* An if whose condition ends at jin: the JumpIfNot stands at jin, the
\* consequence follows and, with an alternative, the Jump and the
\* alternative.
WalkIf(x, ops, jin, pool, amended) ==
    Then(WalkStatements(x.consequence, ops, jin + 1, pool, amended), LAMBDA cons :
      IF IsSome(x.alternative)
        THEN Then(WalkStatements(x.alternative[1], ops, cons.at + 1, pool, amended),
                  LAMBDA alt :
                    Walked(alt.at,
                           /\ cons.ifs /\ alt.ifs
                           /\ OpAt(ops, jin) = OpJumpIfNot(cons.at + 1)
                           /\ OpAt(ops, cons.at) = OpJump(alt.at),
                           cons.fns /\ alt.fns))
        ELSE Walked(cons.at,
                    cons.ifs /\ OpAt(ops, jin) = OpJumpIfNot(cons.at),
                    cons.fns))

\* A function literal at at: the op is the Constant of its CompiledFunction,
\* whose stream is the body's.
WalkFunction(x, ops, at, pool, amended) ==
    LET constant == OpAt(ops, at)
        known == /\ constant.op = "Constant"
                 /\ constant.i < Len(pool)
                 /\ pool[constant.i + 1].object.k = "CompiledFunction"
        body == pool[constant.i + 1].object.ops
    IN  IF ~known THEN Walked(at + 1, FALSE, FALSE)
        ELSE Then(WalkStatements(x.body, body, 0, pool, amended), LAMBDA w :
               Walked(at + 1,
                      w.ifs,
                      /\ w.fns
                      /\ w.at = Len(body)
                      /\ OpAt(body, Len(body) - 1) =
                           (IF amended THEN LastOpAmended(x.body)
                            ELSE LastOpAsClaimed(x.body))))

WalkExpression(x, ops, at, pool, amended) ==
    LET q == [pool |-> pool, amended |-> amended]
        one(xs) == Plus(WalkList(xs, 1, 1, ops, at, q))
    IN  CASE x.e \in {"Integer", "String", "Boolean", "Null", "Identifier"} ->
                Walked(at + 1, TRUE, TRUE)
          [] x.e = "Prefix" -> one(<<x.operand>>)
          [] x.e = "Infix" ->
                one(IF x.operator = "LT" THEN <<x.right, x.left>>
                    ELSE <<x.left, x.right>>)
          [] x.e = "Array" ->
                Plus(WalkList(x.elements, Len(x.elements), -1, ops, at, q))
          [] x.e = "Map" ->
                Plus(WalkEntries(x.elements, Len(x.elements), ops, at, pool, amended))
          [] x.e = "Index" -> one(<<x.collection, x.index>>)
          [] x.e = "Call" -> one(x.arguments \o <<x.function>>)
          [] x.e = "Function" -> WalkFunction(x, ops, at, pool, amended)
          [] x.e = "If" ->
                After(WalkExpression(x.condition, ops, at, pool, amended),
                      LAMBDA jin : WalkIf(x, ops, jin, pool, amended))

\* The walk of the whole program; its last op is not in the stream.
WalkProgram(amended) ==
    WalkStatements(Ast(pid).statements, program[1].ops, 0,
                   program[1].constants, amended)

\* Every op stream of the program: the root's and the function bodies'.
Streams ==
    {program[1].ops}
      \cup {program[1].constants[i].object.ops :
              i \in {j \in 1..Len(program[1].constants) :
                       program[1].constants[j].object.k = "CompiledFunction"}}

\* C23: in every compiled if the JumpIfNot after the condition targets the
\* first op of the alternative, the op right after the Jump, or without an
\* alternative the index right after the consequence's last op; the Jump
\* after the consequence targets the index right after the alternative's
\* last op; and no placeholder is left in any stream.
C23_JumpTargets ==
    IsSome(program) =>
        /\ WalkProgram(TRUE).ifs
        /\ WalkProgram(TRUE).at = Len(program[1].ops) + 1
        /\ \A ops \in Streams : \A k \in 1..Len(ops) : ops[k].op # "Panic"

\* if (false) { if (true) { 1 } else { 2 } } else { 3 } has been compiled
\* into True, JumpIfNot, ..., both of its ifs with two patched jumps.
C23_Witness ==
    /\ pid = <<"if", 2, 0, 1>>
    /\ IsSome(program)
    /\ WalkProgram(TRUE).ifs
    /\ OpAt(program[1].ops, 1).op = "JumpIfNot"
    /\ \E k \in 1..Len(program[1].ops) : program[1].ops[k].op = "Jump"

\* The stream compile_statements builds for the top-level statements,
\* before compile removes its last op.
RootBody ==
    CurrentOps(compile_statements(enter_scope(DefaultCompiler),
                                  Ast(pid).statements))

\* C24 as stated: the top-level stream and the stream of every function
\* body end with ReturnValue when the last compiled statement is an
\* expression statement, and with Return otherwise.
C24_EndsAsStated ==
    IsSome(program) =>
        /\ WalkProgram(FALSE).fns
        /\ OpAt(program[1].ops, Len(program[1].ops) - 1)
             = LastOpAsClaimed(Ast(pid).statements)

\* C24 amended: the stream of every function body ends with ReturnValue
\* when the last compiled statement is an expression statement (its
\* trailing Pop removed) or a return statement, and with Return when there
\* is no statement or the last one is a let; the top-level stream is built
\* in the same way and then loses that last op.
C24_EndsWithReturnOp ==
    IsSome(program) =>
        /\ WalkProgram(TRUE).fns
        /\ RootBody = Append(program[1].ops, LastOpAmended(Ast(pid).statements))
        /\ (Len(Compiled(Ast(pid).statements)) > 0
            /\ Compiled(Ast(pid).statements)[Len(Compiled(Ast(pid).statements))].s
                 = "Expression")
             => OpAt(RootBody, Len(RootBody) - 2).op # "Pop"

\* fn() { let a = 1; return a; }(); has been compiled: the body's stream is
\* Constant, Bind, Get, ReturnValue and the top-level stream ends with the
\* Call, its ReturnValue removed.
C24_Witness ==
    /\ pid = <<"ends", 4, 0, 0>>
    /\ IsSome(program)
    /\ WalkProgram(TRUE).fns
    /\ \E ops \in Streams :
          /\ Len(ops) = 4
          /\ ops[3].op = "Get"
          /\ ops[4] = OpReturnValue
    /\ OpAt(program[1].ops, Len(program[1].ops) - 1).op = "Call"

\* The program is one expression statement `a op b;` over two integer
\* literals, with op other than `<`.
PlainInfix ==
    LET statements == Ast(pid).statements
    IN  /\ Len(statements) = 1
        /\ statements[1].s = "Expression"
        /\ statements[1].expr.e = "Infix"
        /\ statements[1].expr.operator # "LT"
        /\ statements[1].expr.left.e = "Integer"
        /\ statements[1].expr.right.e = "Integer"

\* C25: compiling `a op b;` over two integer literals, op other than `<`,
\* gives the constant pool a, b in source order and the op stream
\* Constant(0), Constant(1), the operator's op, and nothing after it.
C25_InfixOverLiterals ==
    (IsSome(program) /\ PlainInfix) =>
        LET x == Ast(pid).statements[1].expr
        IN  /\ [i \in 1..Len(program[1].constants) |->
                  program[1].constants[i].object]
                 = <<OInteger(x.left.value), OInteger(x.right.value)>>
            /\ program[1].ops
                 = <<OpConstant(0), OpConstant(1), OpInfix(x.operator)>>

\* 7 - 2; has been compiled into the pool 7, 2 and Constant(0),
\* Constant(1), Sub.
C25_Witness ==
    /\ pid = <<"infix", 2, 7, 2>>
    /\ IsSome(program)
    /\ PlainInfix
    /\ Len(program[1].ops) = 3
    /\ program[1].ops[3] = OpInfix("Sub")
    /\ program[1].constants[1].object = OInteger(7)

\* r is Err with WrongNumberOfArguments{expected, got} among its errors.
WrongCount(r, expected, got) ==
    /\ r.t = "Err"
    /\ \E i \in 1..Len(r.errors) :
          /\ r.errors[i].kind = "WrongNumberOfArguments"
          /\ r.errors[i].expected = expected
          /\ r.errors[i].got = got

\* C26: on the VM a call with more or fewer arguments than the function
\* has parameters yields WrongNumberOfArguments{expected: the parameter
\* count, got: the argument count}, pushes no frame and binds no parameter,
\* as the tree-walker does for the same call.
C26_WrongArgumentCount ==
    pid[1] = "arity" =>
        /\ Len(frames) <= 1
        /\ VMDone => WrongCount(VmValue, ArityExpected[pid[2]], ArityGot[pid[2]])
        /\ TwDone => WrongCount(TwValue, ArityExpected[pid[2]], ArityGot[pid[2]])

\* fn(x) { x }(1, 2): the tree-walker has failed with
\* WrongNumberOfArguments{1, 2}, the VM has returned 2 and left the first
\* argument on its stack.
C26_CallGoesThrough ==
    /\ pid = <<"arity", 1, 0, 0>>
    /\ TwDone /\ VMDone
    /\ WrongCount(TwValue, 1, 2)
    /\ Returns(VmValue, OInteger(2))
    /\ Len(stack) = 1
    /\ stack[1].object = OInteger(1)

\* The call of a program of BindsSource, and the value of a literal.
BindsCall(variant) ==
    LET x == BindsSource(variant)[1].expr
    IN  CASE variant = 4 -> x.right
          [] variant = 5 -> x.left
          [] OTHER -> x

LiteralValue(x) == IF x.e = "Integer" THEN OInteger(x.value) ELSE OBoolean(x.value)

\* The locals of the callee's frame are exactly p1 = a1, ..., pN = aN.
BoundInOrder(call) ==
    /\ DOMAIN current_frame.locals
         = {call.function.parameters[i] : i \in 1..Len(call.function.parameters)}
    /\ \A i \in 1..Len(call.arguments) :
          current_frame.locals[call.function.parameters[i]].object
            = LiteralValue(call.arguments[i])

\* C27: on the VM a call f(a1, ..., aN) of a function with the parameters
\* p1..pN binds pi to the value of ai in the new frame's locals, and a
\* function that is not symmetric in its parameters, such as
\* fn(x, y) { x - y }, returns what it returns under the tree-walker.
C27_ArgumentsBoundInOrder ==
    pid[1] = "binds" =>
        /\ Len(frames) = 2 => BoundInOrder(BindsCall(pid[2]))
        /\ (TwDone /\ VMDone) => (TwValue.t = "Ok" /\ VmValue = TwValue)

\* fn(x, y) { x - y }(7, 2) is running its body on the VM with x = 7 and
\* y = 2, and the tree-walker has returned 5.
C27_Witness ==
    /\ pid = <<"binds", 2, 0, 0>>
    /\ Len(frames) = 2
    /\ BoundInOrder(BindsCall(2))
    /\ current_frame.locals["x"].object = OInteger(7)
    /\ TwDone
    /\ Returns(TwValue, OInteger(5))

\* Programs with one call, made from the root frame, and the values on the
\* stack when the code of the call starts, before its arguments and callee.
OneCall ==
    Ids("binds", 1..5, {0}, {0}) \cup Ids("arity", {1, 3, 5}, {0}, {0})
      \cup Ids("operand_if", {1, 2}, {0}, {0}) \cup Ids("if_in_fn", {0, 1}, {0}, {0})
      \cup Ids("ends", {3, 4, 5}, {0}, {0}) \cup Ids("return", {2, 4}, {0}, {0})

BelowCall(id) ==
    CASE id = <<"binds", 4, 0, 0>> -> <<OInteger(10)>>
      [] id = <<"arity", 3, 0, 0>> -> <<OInteger(5)>>
      [] id = <<"arity", 5, 0, 0>> -> <<OInteger(4)>>
      [] OTHER -> <<>>

\* The callee's frame is popped by this step.
CallReturns == Len(frames) = 2 /\ Len(frames') = 1

\* After the step the stack is the values below the call and one result.
NetPlusOne(id) ==
    /\ Len(stack') = Len(BelowCall(id)) + 1
    /\ \A i \in 1..Len(BelowCall(id)) : stack'[i].object = BelowCall(id)[i]

\* C28: on the VM a completed call leaves the stack exactly one value
\* higher than it was before the call's arguments and callee were pushed:
\* the arguments and the callee are gone, one result is added, and no
\* value pushed earlier by the caller or the callee is consumed or left
\* behind.
C28_CallNetEffect ==
    [][(pid \in OneCall /\ CallReturns) => NetPlusOne(pid)]_vars

\* fn() { 5 + if (true) { 1 } }(); is running on the VM: the call has just
\* returned to the root frame and the callee's 5 lies under the result 1.
C28_ValueStranded ==
    /\ pid = <<"operand_if", 1, 0, 0>>
    /\ ~VMDone
    /\ Len(frames) = 1
    /\ current_frame.ip = 2
    /\ Len(stack) = 2
    /\ stack[1].object = OInteger(5)
    /\ stack[2].object = OInteger(1)

\* Every Constant of the stream indexes the pool and every jump goes
\* forward, at most to the end of the stream.
StreamInBounds(ops, pool) ==
    \A k \in 1..Len(ops) :
        /\ ops[k].op = "Constant" => (ops[k].i >= 0 /\ ops[k].i < Len(pool))
        /\ ops[k].op \in {"JumpIfNot", "Jump"} =>
              (k - 1 < ops[k].target /\ ops[k].target <= Len(ops))

\* C30: in the root stream and in the stream of every CompiledFunction
\* constant each Constant(i) has i below the number of constants and each
\* JumpIfNot or Jump has a target above its own index and at most the
\* length of its stream; the scope stack of the compiler is empty when
\* compile returns.
C30_StreamsWellFormed ==
    IsSome(program) =>
        /\ \A ops \in Streams : StreamInBounds(ops, program[1].constants)
        /\ program[1].compiler.scopes = <<>>

\* if (false) { if (true) { 1 } else { 2 } } else { 3 } has been compiled:
\* the last Jump of the root stream targets the end of the stream, and
\* the pool has the three constants the stream names.
C30_Witness ==
    /\ pid = <<"if", 2, 0, 1>>
    /\ IsSome(program)
    /\ \E k \in 1..Len(program[1].ops) :
          /\ program[1].ops[k].op = "Jump"
          /\ program[1].ops[k].target = Len(program[1].ops)
    /\ \E k \in 1..Len(program[1].ops) : program[1].ops[k] = OpConstant(2)
    /\ Len(program[1].constants) = 3
    /\ program[1].compiler.scopes = <<>>

\* What the programs of CaptureSource give when the body sees the defining
\* environment as it was at the function literal.
CaptureOutcome(variant) ==
    CASE variant = 1 -> Err(<<UndefinedVariable("x")>>)
      [] variant = 2 -> Ok(OInteger(1))
      [] variant = 3 -> Ok(OInteger(0))
      [] variant = 4 -> Ok(OInteger(3))
      [] variant = 5 -> Ok(OInteger(7))

\* C29: under the tree-walker a function sees its defining environment as
\* it was when the function literal was evaluated: a let of the defining
\* scope executed after the literal is not visible in the body, except the
\* function's own let-name, and the lets of one call do not change what a
\* later call of the same function sees.
C29_CapturedAsItWas ==
    (pid[1] = "capture" /\ TwDone) => TwValue = CaptureOutcome(pid[2])

\* let n = 0; let f = fn() { let r = n; let n = r + 1; r }; f(); f(); has
\* returned 0: the second call read the captured n, not the first call's.
C29_Witness ==
    /\ pid = <<"capture", 3, 0, 0>>
    /\ TwDone
    /\ TwValue = Ok(OInteger(0))

====
